---- MODULE Spec2Model ----
(***************************************************************************)
(* A model of soweego's record linker and link validator.                  *)
(*                                                                         *)
(*   validator/checks.py   _assess                        (SpecAssess)     *)
(*   linker/classify.py    _post_classification_blocking  (SpecVeto)       *)
(*                         _one_when_wikidata_link_correct (SpecWdLink)    *)
(*                         _add_missing_feature_columns   (SpecPad)        *)
(*                         execute                        (SpecClassify)   *)
(*                         cli                            (SpecCli)        *)
(*                         cli driving execute            (SpecStream)     *)
(*   linker/train.py       execute                        (SpecTrain)      *)
(*   linker/evaluate.py    nested_k_fold_with_grid_search (SpecNested)     *)
(*                         average_k_fold                 (SpecKFold)      *)
(*   pipeline.py           cli                            (SpecPipeline)   *)
(*                                                                         *)
(* Every component has its own variables; a specification keeps the        *)
(* variables of the other components at their idle values.                 *)
(***************************************************************************)
EXTENDS Integers, Sequences, FiniteSets, TLC

VARIABLES
    \* ---- validator/checks.py, _assess ----
    source,        \* QID -> [identifiers, has_links, links]     (wikidata_links)
    target,        \* target id -> [known, links]                (target_links)
    to_deprecate,  \* defaultdict(set): target id -> set of QIDs
    to_add,        \* defaultdict(set): QID -> set of links
    a_pc,          \* "idle" | "loop" | "returned"
    a_next,        \* position of the for loop over source.items()
    \* ---- linker/classify.py, _post_classification_blocking ----
    v_predictions, \* the Series handed in: rows [idx |-> <<qid, tid>>, score]
    v_wikidata,    \* wd_chunk
    v_target,      \* target_chunk
    v_fields,      \* post_block_fields
    v_result,      \* the Series returned
    v_pc,          \* "idle" | "call" | "returned"
    \* ---- linker/classify.py, _one_when_wikidata_link_correct ----
    w_prediction,  \* the row handed in: [idx |-> <<qid, tid>>, score]
    w_target,      \* the target frame
    w_result,      \* [raised, score]
    w_pc,          \* "idle" | "call" | "returned"
    \* ---- linker/classify.py, _add_missing_feature_columns ----
    p_classifier,  \* the loaded classifier: [kind, expected, has_name]
    p_before,      \* feature_vectors when the call is made
    p_fv,          \* feature_vectors, changed in place by the call
    p_raised,      \* "none" | "ValueError" | "AttributeError"
    p_pc,          \* "idle" | "call" | "returned"
    \* ---- linker/classify.py, execute: what the run reads ----
    c_chunk_size,  \* records per chunk of the Wikidata generator
    c_candidates,  \* the pairs that blocking finds
    c_evidence,    \* pair -> the feature value that extraction gives it
    c_target_db,   \* target id -> [name, url], the catalog
    c_url_column,  \* the catalog has links: target chunks carry a URL column
    \* ---- the files of dir_io ----
    cache_fv,      \* complete_fv_path: [exists, data]
    cache_wd,      \* complete_wd_path
    cache_target,  \* complete_target_path
    \* ---- one run of execute ----
    c_run,         \* the number of the run
    c_pc,          \* "idle" | "cached" | "chunks" | "dump_wd" | "dump_target"
                   \*   | "done" | "failed"
    c_classifier,  \* joblib.load(model)
    c_fields,      \* post_block_fields
    c_found,       \* the cache files that line 125 found
    c_path,        \* "none" | "cache" | "rebuild"
    c_i,           \* chunks taken from wd_generator
    all_feature_vectors,  \* [set, data]: None until the first chunk
    all_wd_chunks,
    all_target_chunks,
    c_padded,      \* the last call of _add_missing_feature_columns
    c_corrected,   \* the predictions of the last batch, before the threshold
    c_emitted,     \* the batches yielded by this run
    c_built,       \* rounds of blocking, target gathering and extraction
    c_raised,      \* the exception that ended the run, or "none"
    \* ---- what the run before this one did ----
    c_previous,    \* [path, pc, classifier, fields, emitted]
    \* ---- linker/train.py, execute ----
    t_wd_size,     \* records per chunk of wd_generator
    t_target_size, \* records per chunk of target_generator
    t_truth,       \* the pairs that the identifier statements of Wikidata give
    t_full,        \* the pairs that the full-text query finds
    t_i,           \* i: chunks taken from wd_generator
    t_j,           \* chunks taken from target_generator
    t_feature_vectors,         \* feature_vectors, a list of matrices
    t_positive_samples_index,  \* [set, data]: None at first
    t_warnings,    \* the counts of the warnings of line 62
    t_compared,    \* the (i, target chunk) rounds of the loop body
    t_trained,     \* what _train is given: [called, feature_vectors, positives]
    t_pc,          \* "off" | "outer" | "inner" | "returned" | "failed"
    \* ---- linker/evaluate.py, _run_nested ----
    n_classifier,  \* clf, the kind of classifier
    n_k,           \* k_folds
    n_built,       \* train.build_dataset was called
    n_initialized, \* workflow.init_model was called
    n_fold,        \* outer folds done
    n_fits,        \* what each fit of grid_search gave: [train, test, model]
    n_result,      \* result: [train, test, best_models]
    n_models,      \* result.pop('best_models'): the models still to persist
    n_persisted,   \* k of line 245: models persisted
    n_disk,        \* path -> the model that joblib.dump wrote there
    n_dumped,      \* what json.dump wrote: [written, result]
    n_raised,      \* the exception that ended the run, or "none"
    n_pc,          \* "off" | "call" | "folds" | "persist" | "dumped" | "failed"
    \* ---- linker/evaluate.py, average_k_fold ----
    f_positive,    \* positive_samples_index
    f_k,           \* k
    f_split,       \* k_fold.split: the test index of each fold
    f_fold,        \* folds done
    f_models,      \* the classifier instances made, each with what it was fit on
    f_preds,       \* preds of each fold
    f_predictions, \* predictions: [set, data], None at first
    f_precisions,  \* precisions
    f_recalls,     \* recalls
    f_fscores,     \* fscores
    f_returned,    \* [done, predictions]
    f_pc,          \* "off" | "folds" | "returned"
    \* ---- linker/classify.py, cli ----
    cli_classifier,    \* classifier, the name on the command line
    cli_model_exists,  \* os.path.isfile(model_path)
    cli_upload,        \* upload
    cli_batches,       \* what execute yields, batch after batch
    cli_results,       \* the file at results_path: [exists, rows]
    cli_old,           \* the file at results_path when the command began
    cli_taken,         \* batches taken from execute
    cli_uploaded,      \* the links handed to wikidata_bot.add_identifiers
    cli_raised,        \* [type, message] of the exception that ended the run
    cli_pc,            \* "off" | "start" | "chunks" | "done" | "failed"
    \* ---- linker/classify.py, cli driving the generator execute ----
    s_chunks,      \* the chunks wd_generator has
    s_fails_at,    \* the chunk whose classification raises, 0 for none
    s_upload,      \* upload
    s_cache,       \* the cache artifacts on disk
    s_cache_start, \* the cache artifacts on disk when the run began
    s_run,         \* runs begun
    s_path,        \* "none" | "cache" | "rebuild"
    s_i,           \* i of enumerate(wd_generator, 1); batches yielded
    s_log,         \* what the run did so far: [ev, i]
    s_results,     \* the rows of the results file: the chunk of each
    s_raised,      \* "none" | "chunk" | "upload" | "write" | "dump"
    s_before,      \* [path, raised, pc] of the run before this one
    s_pc,          \* "off" | "start" | "next" | "upload" | "write" | "done" | "failed"
    \* ---- pipeline.py ----
    pl_importer,   \* importer
    pl_linker,     \* linker
    pl_validator,  \* validator
    pl_upload,     \* upload
    pl_entities,   \* target_database.supported_entities_for_target(target)
    pl_e,          \* position of the for loop over the entity types
    pl_args,       \* args of _validator
    pl_calls,      \* the commands invoked so far: [command, args]
    pl_outcome,    \* how the last command ended: "none" | "return" |
                   \* "SystemExit" | "Exception"
    pl_raised,     \* the exception that left cli: "none" | "Exception"
    pl_pc          \* the line the run is at, "off" | ... | "done" | "failed"

assessVars == <<source, target, to_deprecate, to_add, a_pc, a_next>>

vetoVars == <<v_predictions, v_wikidata, v_target, v_fields, v_result, v_pc>>

wdLinkVars == <<w_prediction, w_target, w_result, w_pc>>

padVars == <<p_classifier, p_before, p_fv, p_raised, p_pc>>

worldVars == <<c_chunk_size, c_candidates, c_evidence, c_target_db, c_url_column>>

cacheVars == <<cache_fv, cache_wd, cache_target>>

runVars == <<c_run, c_pc, c_classifier, c_fields, c_found, c_path, c_i,
             all_feature_vectors, all_wd_chunks, all_target_chunks,
             c_padded, c_corrected, c_emitted, c_built, c_raised>>

historyVars == <<c_previous>>

classifyVars == <<worldVars, cacheVars, runVars, historyVars>>

trainVars == <<t_wd_size, t_target_size, t_truth, t_full, t_i, t_j,
               t_feature_vectors, t_positive_samples_index, t_warnings,
               t_compared, t_trained, t_pc>>

nestedVars == <<n_classifier, n_k, n_built, n_initialized, n_fold, n_fits,
                n_result, n_models, n_persisted, n_disk, n_dumped, n_raised,
                n_pc>>

kfoldVars == <<f_positive, f_k, f_split, f_fold, f_models, f_preds,
               f_predictions, f_precisions, f_recalls, f_fscores, f_returned,
               f_pc>>

cliVars == <<cli_classifier, cli_model_exists, cli_upload, cli_batches,
             cli_results, cli_old, cli_taken, cli_uploaded, cli_raised, cli_pc>>

streamVars == <<s_chunks, s_fails_at, s_upload, s_cache, s_cache_start, s_run,
                s_path, s_i, s_log, s_results, s_raised, s_before, s_pc>>

pipelineVars == <<pl_importer, pl_linker, pl_validator, pl_upload, pl_entities,
                  pl_e, pl_args, pl_calls, pl_outcome, pl_raised, pl_pc>>

linkerVars == <<trainVars, nestedVars, kfoldVars, cliVars, streamVars, pipelineVars>>

vars == <<assessVars, vetoVars, wdLinkVars, padVars, classifyVars, linkerVars>>

----------------------------------------------------------------------------
(***************************************************************************)
(* Helpers                                                                 *)
(***************************************************************************)

\* set(a_list)
ToSet(s) == {s[i] : i \in 1..Len(s)}

\* The sequences over S of length at most n, without repeated elements.
RECURSIVE InjSeqs(_, _)
InjSeqs(S, n) ==
    IF n = 0 THEN {<<>>}
    ELSE LET shorter == InjSeqs(S, n - 1)
             longest == {t \in shorter : Len(t) = n - 1}
         IN  shorter \cup
             UNION {{Append(s, x) : x \in S \ ToSet(s)} : s \in longest}

----------------------------------------------------------------------------
(***************************************************************************)
(* validator/checks.py: _assess(source, target, to_deprecate, to_add)      *)
(***************************************************************************)

MaxTargetLinks == 2

AssessQIDs == <<"Q1", "Q2">>          \* source.items(), in dictionary order
AssessTIDs == {"T1", "T2"}
Links == {"a", "b", "c"}

\* data['identifiers'] is a non-empty set (_gather_identifiers creates the
\* entry when it adds the first identifier); data.get('links') is None when
\* _gather_wikidata_links found no link for the QID.
SourceData ==
    [identifiers : SUBSET AssessTIDs \ {{}},
     has_links   : BOOLEAN,
     links       : SUBSET Links]

SourceEntries ==
    {d \in SourceData : ~d.has_links => d.links = {}}

\* target is a defaultdict(list): a target id is a key or not, and a key
\* holds a list of URLs.
TargetEntries ==
    {[known |-> FALSE, links |-> <<>>]}
        \cup {[known |-> TRUE, links |-> l] : l \in InjSeqs(Links, MaxTargetLinks)}

\* `not source_links`: the key is missing (None) or the set is empty.
NoSourceLinks(data) == ~data.has_links \/ data.links = {}

\* A slip in line 285: the union instead of the intersection.
shared_links_union(source_links, target_links) == source_links \cup target_links

shared_links(source_links, target_links) == source_links \cap target_links

\* A slip in line 286: every link of the target taken as extra.
extra_links_all(source_links, target_links) == target_links

extra_links(source_links, target_links) == target_links \ source_links

\* The target ids of `data` that pass both guards of the inner loop:
\* a key of target, with a non-empty list.
AssessedIds(data) ==
    {t \in data.identifiers : target[t].known /\ target[t].links # <<>>}

\* The body of the inner loop for one QID, over all its identifiers: both
\* results are sets, so the order of the iteration does not show.
DeprecatedBy(qid, data) ==
    {t \in AssessedIds(data) :
        shared_links(data.links, ToSet(target[t].links)) = {}}

\* A slip in lines 287-297: the extra links handled in the else branch of
\* `if not shared_links`, so that a deprecated statement adds nothing.
AddedToUnlessDeprecated(qid, data) ==
    UNION {extra_links(data.links, ToSet(target[t].links)) :
              t \in AssessedIds(data) \ DeprecatedBy(qid, data)}

AddedTo(qid, data) ==
    UNION {extra_links(data.links, ToSet(target[t].links)) : t \in AssessedIds(data)}

InitAssess ==
    /\ source \in [ToSet(AssessQIDs) -> SourceEntries]
    /\ target \in [AssessTIDs -> TargetEntries]
    /\ to_deprecate = [t \in AssessTIDs |-> {}]
    /\ to_add = [q \in ToSet(AssessQIDs) |-> {}]
    /\ a_pc = "loop"
    /\ a_next = 1

IdleAssess ==
    /\ source = <<>>
    /\ target = <<>>
    /\ to_deprecate = <<>>
    /\ to_add = <<>>
    /\ a_pc = "idle"
    /\ a_next = 0

\* A slip in line 276: `break` (or an error) instead of `continue`.
AssessSkipQidBreak ==
    /\ a_pc = "loop"
    /\ a_next <= Len(AssessQIDs)
    /\ NoSourceLinks(source[AssessQIDs[a_next]])
    /\ a_next' = Len(AssessQIDs) + 1
    /\ UNCHANGED <<source, target, to_deprecate, to_add, a_pc>>
    /\ UNCHANGED <<vetoVars, wdLinkVars, padVars, classifyVars, linkerVars>>

\* lines 271-276: a QID without links is skipped
AssessSkipQid ==
    /\ a_pc = "loop"
    /\ a_next <= Len(AssessQIDs)
    /\ NoSourceLinks(source[AssessQIDs[a_next]])
    /\ a_next' = a_next + 1
    /\ UNCHANGED <<source, target, to_deprecate, to_add, a_pc>>
    /\ UNCHANGED <<vetoVars, wdLinkVars, padVars, classifyVars, linkerVars>>

\* lines 277-299: the identifiers of a QID with links
AssessQid ==
    /\ a_pc = "loop"
    /\ a_next <= Len(AssessQIDs)
    /\ LET qid  == AssessQIDs[a_next]
           data == source[qid]
       IN  /\ ~NoSourceLinks(data)
           /\ to_deprecate' =
                [t \in AssessTIDs |->
                    IF t \in DeprecatedBy(qid, data)
                    THEN to_deprecate[t] \cup {qid}
                    ELSE to_deprecate[t]]
           /\ to_add' = [to_add EXCEPT ![qid] = @ \cup AddedTo(qid, data)]
    /\ a_next' = a_next + 1
    /\ UNCHANGED <<source, target, a_pc>>
    /\ UNCHANGED <<vetoVars, wdLinkVars, padVars, classifyVars, linkerVars>>

AssessReturn ==
    /\ a_pc = "loop"
    /\ a_next > Len(AssessQIDs)
    /\ a_pc' = "returned"
    /\ UNCHANGED <<source, target, to_deprecate, to_add, a_next>>
    /\ UNCHANGED <<vetoVars, wdLinkVars, padVars, classifyVars, linkerVars>>

NextAssess == AssessSkipQid \/ AssessQid \/ AssessReturn

----------------------------------------------------------------------------
(***************************************************************************)
(* linker/classify.py: data                                                *)
(*                                                                         *)
(* A string is a sequence of symbols.  A cell of a record frame is either  *)
(* missing (nan) or a list of strings.  A frame has a set of columns and a *)
(* sequence of rows, each with its index label.  A Series of predictions   *)
(* is a sequence of rows [idx |-> <<qid, tid>>, score |-> s].              *)
(* Scores are counted in quarters: 0 is 0.0, 2 is 0.5 and 4 is 1.0.        *)
(***************************************************************************)

ZERO == 0
ONE == 4
CONFIDENCE_THRESHOLD == 2

Scores == ZERO..ONE

NAME == "name"
URL == "url"
RecordColumns == {NAME, URL}

NanCell == [nan |-> TRUE, list |-> <<>>]
ListCell(l) == [nan |-> FALSE, list |-> l]

\* wikidata.get(column) is not None
HasColumn(frame, column) == column \in frame.cols

\* frame.loc[label]: the rows that carry the label
Loc(frame, label) ==
    LET Labelled(r) == r.id = label
    IN  SelectSeq(frame.rows, Labelled)

\* frame.loc[label][column] is one cell only when the label is unique in the
\* index; for a repeated label pandas hands back a Series of the cells.
IsUnique(frame, label) == Len(Loc(frame, label)) = 1

----------------------------------------------------------------------------
(***************************************************************************)
(* linker/classify.py: _post_classification_blocking and                   *)
(* _zero_when_not_exact_match                                              *)
(***************************************************************************)

\* A slip in line 268: only the first of the fields is looked at.
FieldValuesOfFirstField(frame, label, fields) ==
    UNION {ToSet(Loc(frame, label)[1].cells[column].list) :
              column \in {c \in {fields[1]} :
                            /\ HasColumn(frame, c)
                            /\ ~Loc(frame, label)[1].cells[c].nan}}

\* lines 270-274 and 276-280: the values a frame gives for the fields, pooled
\* over all fields; a missing column or a nan cell gives none.
FieldValues(frame, label, fields) ==
    UNION {ToSet(Loc(frame, label)[1].cells[column].list) :
              column \in {c \in ToSet(fields) :
                            /\ HasColumn(frame, c)
                            /\ ~Loc(frame, label)[1].cells[c].nan}}

\* A repeated label makes `values` a Series of lists: `values is not nan`
\* holds and set(values) raises TypeError (a list is unhashable).
FieldLookupFails(frame, label, fields) ==
    \E column \in ToSet(fields) :
        HasColumn(frame, column) /\ ~IsUnique(frame, label)

\* A slip in line 282: zero unless the two sets are equal.
zero_unless_equal(prediction, fields, wikidata_df, target_df) ==
    IF FieldValues(wikidata_df, prediction.idx[1], fields)
            = FieldValues(target_df, prediction.idx[2], fields)
    THEN prediction.score
    ELSE ZERO

\* lines 256-282
zero_when_not_exact_match(prediction, fields, wikidata_df, target_df) ==
    IF FieldValues(wikidata_df, prediction.idx[1], fields)
            \cap FieldValues(target_df, prediction.idx[2], fields) = {}
    THEN ZERO
    ELSE prediction.score

\* lines 239-253; [raised, series]
post_classification_blocking(predictions, wd_chunk, target_chunk, post_block_fields) ==
    IF post_block_fields = <<>>
    THEN [raised |-> FALSE, series |-> predictions]
    ELSE IF \E i \in 1..Len(predictions) :
                \/ FieldLookupFails(wd_chunk, predictions[i].idx[1], post_block_fields)
                \/ FieldLookupFails(target_chunk, predictions[i].idx[2], post_block_fields)
         THEN [raised |-> TRUE, series |-> <<>>]
         ELSE [raised |-> FALSE,
               series |-> [i \in 1..Len(predictions) |->
                   [idx   |-> predictions[i].idx,
                    score |-> zero_when_not_exact_match(
                                 predictions[i], post_block_fields,
                                 wd_chunk, target_chunk)]]]

\* The inputs of the call: one candidate pair, its two records with every
\* combination of missing columns, missing cells and values, and every
\* choice of fields that --post-block-fields allows.
VetoValues == {<<"x">>, <<"y">>}
VetoCells == {NanCell} \cup {ListCell(l) : l \in InjSeqs(VetoValues, Cardinality(VetoValues))}
VetoQid == <<"Q", "4">>
VetoTid == "T1"

VetoFrames(label) ==
    {[cols |-> cs,
      rows |-> <<[id |-> label,
                  cells |-> [c \in RecordColumns |->
                                IF c \in cs THEN cell[c] ELSE NanCell]]>>] :
        cs \in SUBSET RecordColumns, cell \in [RecordColumns -> VetoCells]}

InitVeto ==
    /\ v_pc = "call"
    /\ v_fields \in InjSeqs(RecordColumns, Cardinality(RecordColumns))
    /\ v_wikidata \in VetoFrames(VetoQid)
    /\ v_target \in VetoFrames(VetoTid)
    /\ \E s \in Scores :
          v_predictions = <<[idx |-> <<VetoQid, VetoTid>>, score |-> s]>>
    /\ v_result = [raised |-> FALSE, series |-> <<>>]

IdleVeto ==
    /\ v_pc = "idle"
    /\ v_fields = <<>>
    /\ v_wikidata = <<>>
    /\ v_target = <<>>
    /\ v_predictions = <<>>
    /\ v_result = <<>>

PostClassificationBlocking ==
    /\ v_pc = "call"
    /\ v_result' = post_classification_blocking(
                       v_predictions, v_wikidata, v_target, v_fields)
    /\ v_pc' = "returned"
    /\ UNCHANGED <<v_predictions, v_wikidata, v_target, v_fields>>
    /\ UNCHANGED <<assessVars, wdLinkVars, padVars, classifyVars, linkerVars>>

NextVeto == PostClassificationBlocking

----------------------------------------------------------------------------
(***************************************************************************)
(* linker/classify.py: _one_when_wikidata_link_correct                     *)
(*                                                                         *)
(* A URL is a string over three symbols: "wikidata" stands for one         *)
(* occurrence of that substring, "Q" for the letter and "4" for a digit.   *)
(* The empty string stands for a URL that `if u` rejects.                  *)
(***************************************************************************)

MaxUrlLen == 4

Symbols == {"wikidata", "Q", "4"}
Digits == {"4"}

Strings(n) == UNION {[1..k -> Symbols] : k \in 0..n}

\* 'wikidata' in u
ContainsWikidata(u) == \E i \in 1..Len(u) : u[i] = "wikidata"

\* The positions where r'(Q\d+)$' matches: a Q followed by digits only, at
\* least one, up to the end of the string.
QidMatches(u) ==
    {i \in 1..Len(u) - 1 :
        u[i] = "Q" /\ \A j \in i + 1..Len(u) : u[j] \in Digits}

\* re.search(r'(Q\d+)$', u): the leftmost match, [found, group]
re_search_qid(u) ==
    IF QidMatches(u) = {}
    THEN [found |-> FALSE, group |-> <<>>]
    ELSE LET i == CHOOSE k \in QidMatches(u) : \A m \in QidMatches(u) : k <= m
         IN  [found |-> TRUE, group |-> SubSeq(u, i, Len(u))]

\* A slip in lines 290-298: the loop goes on to the last URL that fires.
RECURSIVE LastFiring(_, _)
LastFiring(urls, i) ==
    IF i > Len(urls) THEN 0
    ELSE IF LastFiring(urls, i + 1) # 0 THEN LastFiring(urls, i + 1)
    ELSE IF urls[i] # <<>> /\ ContainsWikidata(urls[i]) /\ re_search_qid(urls[i]).found
         THEN i
    ELSE 0

\* A slip in line 292: the test for 'wikidata' left out.
LinkFiresAnywhere(u) == u # <<>> /\ re_search_qid(u).found

\* lines 291-294: the URL passes the three tests
LinkFires(u) == u # <<>> /\ ContainsWikidata(u) /\ re_search_qid(u).found

\* lines 290-298: the loop returns at the first URL that fires
RECURSIVE FirstFiring(_, _)
FirstFiring(urls, i) ==
    IF i > Len(urls) THEN 0
    ELSE IF LinkFires(urls[i]) THEN i
    ELSE FirstFiring(urls, i + 1)

\* lines 285-300; [raised, score].  A repeated label makes `urls` a Series,
\* whose truth value is a ValueError; a nan cell is true and cannot be
\* iterated (TypeError).
one_when_wikidata_link_correct(prediction, target_df) ==
    LET qid  == prediction.idx[1]
        tid  == prediction.idx[2]
        rows == Loc(target_df, tid)
    IN  IF Len(rows) # 1 \/ rows[1].cells[URL].nan
        THEN [raised |-> TRUE, score |-> ZERO]
        ELSE LET urls == rows[1].cells[URL].list
                 i    == FirstFiring(urls, 1)
             IN  IF i = 0
                 THEN [raised |-> FALSE, score |-> prediction.score]
                 ELSE [raised |-> FALSE,
                       score  |-> IF qid = re_search_qid(urls[i]).group
                                  THEN ONE ELSE ZERO]

\* The inputs of the call: a pair, its raw score and the URLs of the target
\* record.  The URL cell of an aggregated target record is a list, here of
\* at most two URLs, the second of at most MaxUrlLen - 1 symbols.
WdLinkQids == {<<"Q", "4">>, <<"Q", "4", "4">>}
WdLinkTid == "T1"

UrlLists ==
    {<<>>} \cup {<<u>> : u \in Strings(MaxUrlLen)}
           \cup {<<u, v>> : u \in Strings(MaxUrlLen), v \in Strings(MaxUrlLen - 1)}

InitWdLink ==
    /\ w_pc = "call"
    /\ \E q \in WdLinkQids, s \in Scores :
          w_prediction = [idx |-> <<q, WdLinkTid>>, score |-> s]
    /\ \E l \in UrlLists :
          w_target = [cols |-> {URL},
                      rows |-> <<[id |-> WdLinkTid,
                                  cells |-> [c \in RecordColumns |->
                                      IF c = URL THEN ListCell(l) ELSE NanCell]]>>]
    /\ w_result = [raised |-> FALSE, score |-> ZERO]

IdleWdLink ==
    /\ w_pc = "idle"
    /\ w_prediction = <<>>
    /\ w_target = <<>>
    /\ w_result = <<>>

OneWhenWikidataLinkCorrect ==
    /\ w_pc = "call"
    /\ w_result' = one_when_wikidata_link_correct(w_prediction, w_target)
    /\ w_pc' = "returned"
    /\ UNCHANGED <<w_prediction, w_target>>
    /\ UNCHANGED <<assessVars, vetoVars, padVars, classifyVars, linkerVars>>

NextWdLink == OneWhenWikidataLinkCorrect

----------------------------------------------------------------------------
(***************************************************************************)
(* linker/classify.py: _add_missing_feature_columns                        *)
(*                                                                         *)
(* A feature matrix has a sequence of named columns and a sequence of      *)
(* rows [idx, vals], vals in the order of the columns.  The columns that   *)
(* feature extraction gives are <<"f", k>>; f'missing_{i}' is              *)
(* <<"missing", i>>.  A feature value is a number of quarters, the missing *)
(* value sentinel, or NaN (what pandas fills in where a column is absent). *)
(***************************************************************************)

MaxWidth == 2
MaxExpected == 3
MaxRows == 2

NAN == -2
FEATURE_MISSING_VALUE == -1

FeatureColumn(k) == <<"f", k>>
MissingColumn(i) == <<"missing", i>>

SupportedKinds ==
    {"NaiveBayesClassifier", "SVCClassifier", "SVMClassifier",
     "SingleLayerPerceptron", "MultiLayerPerceptron"}

\* feature_vectors.shape[1]
Width(fv) == Len(fv.cols)

ColumnIndex(fv, name) == CHOOSE k \in 1..Len(fv.cols) : fv.cols[k] = name

\* feature_vectors[name] = full(len(feature_vectors), value): a column of
\* that name is overwritten, a new name is appended as the last column.
SetColumn(fv, name, value) ==
    IF \E k \in 1..Len(fv.cols) : fv.cols[k] = name
    THEN [cols |-> fv.cols,
          rows |-> [r \in 1..Len(fv.rows) |->
                      [idx  |-> fv.rows[r].idx,
                       vals |-> [fv.rows[r].vals
                                    EXCEPT ![ColumnIndex(fv, name)] = value]]]]
    ELSE [cols |-> Append(fv.cols, name),
          rows |-> [r \in 1..Len(fv.rows) |->
                      [idx  |-> fv.rows[r].idx,
                       vals |-> Append(fv.rows[r].vals, value)]]]

\* lines 322-324: for i in range(expected - actual), from i on
RECURSIVE AddMissing(_, _, _)
AddMissing(fv, i, n) ==
    IF i >= n THEN fv
    ELSE AddMissing(SetColumn(fv, MissingColumn(i), FEATURE_MISSING_VALUE), i + 1, n)

\* lines 313-316: the message reads classifier.__name__, which an instance
\* does not have: the f-string raises AttributeError before the ValueError
\* is built.
UnsupportedClassifier(classifier) ==
    IF classifier.has_name THEN "ValueError" ELSE "AttributeError"

\* lines 303-324; [raised, fv]
add_missing_feature_columns(classifier, feature_vectors) ==
    IF classifier.kind \notin SupportedKinds
    THEN [raised |-> UnsupportedClassifier(classifier), fv |-> feature_vectors]
    ELSE [raised |-> "none",
          fv |-> IF classifier.expected # Width(feature_vectors)
                 THEN AddMissing(feature_vectors, 0,
                                 classifier.expected - Width(feature_vectors))
                 ELSE feature_vectors]

\* The inputs of the call.  The loaded object is an instance of a supported
\* kind, or anything else that joblib can load: an instance (no __name__)
\* or a class or function (with __name__).
PadClassifiers ==
    {[kind |-> k, expected |-> e, has_name |-> FALSE] :
        k \in SupportedKinds, e \in 1..MaxExpected}
    \cup {[kind |-> "Other", expected |-> e, has_name |-> n] :
        e \in 1..MaxExpected, n \in BOOLEAN}

FeatureValues == {ZERO, ONE}

\* Matrices as feature extraction gives them, w columns wide.
ExtractedMatrices(w) ==
    {[cols |-> [k \in 1..w |-> FeatureColumn(k - 1)],
      rows |-> [r \in 1..n |-> [idx |-> r, vals |-> v[r]]]] :
        n \in 0..MaxRows, v \in [1..MaxRows -> [1..w -> FeatureValues]]}

InitPad ==
    /\ p_pc = "call"
    /\ p_classifier \in PadClassifiers
    /\ \E w \in 1..MaxWidth : p_fv \in ExtractedMatrices(w)
    /\ p_before = p_fv
    /\ p_raised = "none"

IdlePad ==
    /\ p_pc = "idle"
    /\ p_classifier = <<>>
    /\ p_fv = <<>>
    /\ p_before = <<>>
    /\ p_raised = "none"

AddMissingFeatureColumns ==
    /\ p_pc = "call"
    /\ LET res == add_missing_feature_columns(p_classifier, p_fv)
       IN  /\ p_fv' = res.fv
           /\ p_raised' = res.raised
    /\ p_pc' = "returned"
    /\ UNCHANGED <<p_classifier, p_before>>
    /\ UNCHANGED <<assessVars, vetoVars, wdLinkVars, classifyVars, linkerVars>>

NextPad == AddMissingFeatureColumns

----------------------------------------------------------------------------
(***************************************************************************)
(* linker/classify.py: execute                                             *)
(*                                                                         *)
(* The run reads a Wikidata dataset of two records, cut into chunks of     *)
(* c_chunk_size, and a catalog of two target records.  Blocking, target    *)
(* gathering, feature extraction and the classifier kernel are not in      *)
(* this file: they are functions of what they are given.                   *)
(***************************************************************************)

MaxRuns == 2

Q4 == <<"Q", "4">>
Q44 == <<"Q", "4", "4">>
WdOrder == <<Q4, Q44>>                 \* the order of the Wikidata dataset
TargetOrder == <<"T1", "T2">>
PairOrder == <<<<Q4, "T1">>, <<Q4, "T2">>, <<Q44, "T1">>, <<Q44, "T2">>>>
PossiblePairs == {<<Q4, "T1">>, <<Q4, "T2">>, <<Q44, "T1">>}

NameA == <<"a">>
NameB == <<"b">>
WdNames == [q \in ToSet(WdOrder) |-> IF q = Q4 THEN NameA ELSE NameB]
WikidataUrlOfQ4 == <<"wikidata", "Q", "4">>

RawScores == {1, 2, 3}

EmptyMatrix == [cols |-> <<>>, rows |-> <<>>]

\* c_padded before the first call of _add_missing_feature_columns of a run
NotPadded == [before |-> EmptyMatrix, after |-> EmptyMatrix]

\* c_previous of the first run
NoRun == [path |-> "none", pc |-> "none", classifier |-> <<>>,
          fields |-> <<>>, emitted |-> <<>>]

CacheFiles == {"fv", "wd", "target"}
NoFile == [exists |-> FALSE, data |-> <<>>]
None == [set |-> FALSE, data |-> <<>>]

\* workflow.preprocess_wikidata: the chunks of the generator
NumChunks == (Len(WdOrder) + c_chunk_size - 1) \div c_chunk_size

WdChunkIds(i) ==
    SubSeq(WdOrder, (i - 1) * c_chunk_size + 1,
           IF i * c_chunk_size < Len(WdOrder) THEN i * c_chunk_size ELSE Len(WdOrder))

\* The preprocessed frame of the records ids.
WdFrame(ids) ==
    [cols |-> {NAME},
     rows |-> [k \in 1..Len(ids) |->
                 [id |-> ids[k],
                  cells |-> [c \in RecordColumns |->
                      IF c = NAME THEN ListCell(<<WdNames[ids[k]]>>)
                      ELSE NanCell]]]]

WdChunk(i) == WdFrame(WdChunkIds(i))

\* blocking.prefect_block_on_column: the candidate pairs of a chunk
Samples(wd_chunk) ==
    LET InChunk(pair) ==
            /\ pair \in c_candidates
            /\ \E k \in 1..Len(wd_chunk.rows) : wd_chunk.rows[k].id = pair[1]
    IN  SelectSeq(PairOrder, InChunk)

\* data_gathering.gather_target_dataset and workflow.preprocess_target: the
\* records of the target ids of the samples, one row per target id
TargetChunk(samples) ==
    LET InSamples(t) == \E k \in 1..Len(samples) : samples[k][2] = t
        tids == SelectSeq(TargetOrder, InSamples)
    IN  [cols |-> IF c_url_column THEN {NAME, URL} ELSE {NAME},
         rows |-> [k \in 1..Len(tids) |->
                     [id |-> tids[k],
                      cells |-> [c \in RecordColumns |->
                          IF c = NAME THEN ListCell(<<c_target_db[tids[k]].name>>)
                          ELSE IF c_url_column THEN ListCell(c_target_db[tids[k]].url)
                          ELSE NanCell]]]]

\* workflow.extract_features: one row per pair, one feature column
ExtractFeatures(samples) ==
    [cols |-> <<FeatureColumn(0)>>,
     rows |-> [k \in 1..Len(samples) |->
                 [idx |-> samples[k], vals |-> <<c_evidence[samples[k]]>>]]]

\* pd.concat([a, b], sort=False) of two feature matrices: the columns of a,
\* then the columns only b has; NaN where a row has no such column
ConcatColumns(a, b) ==
    LET NotInA(name) == \A k \in 1..Len(a.cols) : a.cols[k] # name
    IN  a.cols \o SelectSeq(b.cols, NotInA)

Realign(fv, cols) ==
    [r \in 1..Len(fv.rows) |->
        [idx  |-> fv.rows[r].idx,
         vals |-> [k \in 1..Len(cols) |->
                     IF \E j \in 1..Len(fv.cols) : fv.cols[j] = cols[k]
                     THEN fv.rows[r].vals[ColumnIndex(fv, cols[k])]
                     ELSE NAN]]]

ConcatMatrices(a, b) ==
    [cols |-> ConcatColumns(a, b),
     rows |-> Realign(a, ConcatColumns(a, b)) \o Realign(b, ConcatColumns(a, b))]

\* pd.concat([a, b], sort=False) of two record frames
ConcatFrames(a, b) ==
    [cols |-> a.cols \cup b.cols, rows |-> a.rows \o b.rows]

\* classifier.prob(feature_vectors), or predict for an SVM: the kernel
\* rejects a matrix that is not as wide as it expects or holds NaN, and
\* scores a row by its first feature otherwise.
Predict(classifier, fv) ==
    IF \/ Width(fv) # classifier.expected
       \/ \E r \in 1..Len(fv.rows), k \in 1..Width(fv) : fv.rows[r].vals[k] = NAN
    THEN [raised |-> TRUE, series |-> <<>>]
    ELSE [raised |-> FALSE,
          series |-> [r \in 1..Len(fv.rows) |->
                        [idx   |-> fv.rows[r].idx,
                         score |-> fv.rows[r].vals[ColumnIndex(fv, FeatureColumn(0))]]]]

\* lines 147-149 and 225-227: the rule on every row, when the target frame
\* has a URL column
WikidataLinkRule(predictions, target_df) ==
    IF ~HasColumn(target_df, URL)
    THEN [raised |-> FALSE, series |-> predictions]
    ELSE IF \E k \in 1..Len(predictions) :
                one_when_wikidata_link_correct(predictions[k], target_df).raised
         THEN [raised |-> TRUE, series |-> <<>>]
         ELSE [raised |-> FALSE,
               series |-> [k \in 1..Len(predictions) |->
                   [idx   |-> predictions[k].idx,
                    score |-> one_when_wikidata_link_correct(
                                 predictions[k], target_df).score]]]

\* predictions[predictions >= threshold]
AboveThreshold(predictions, threshold) ==
    LET Kept(row) == row.score >= threshold
    IN  SelectSeq(predictions, Kept)

\* Series.drop_duplicates(): a row goes when an earlier row has its value
RECURSIVE drop_duplicates(_)
drop_duplicates(series) ==
    IF series = <<>> THEN <<>>
    ELSE LET front == drop_duplicates(SubSeq(series, 1, Len(series) - 1))
             last  == series[Len(series)]
         IN  IF \E k \in 1..Len(series) - 1 : series[k].score = last.score
             THEN front
             ELSE Append(front, last)

\* lines 151 and 231: what is yielded
Batch(predictions, threshold) ==
    drop_duplicates(AboveThreshold(predictions, threshold))

\* A slip in lines 219-227: the rule of the Wikidata link first, the veto
\* on its result.
ClassifyVetoLast(classifier, fv, wd_df, target_df, fields) ==
    LET predicted == Predict(classifier, fv)
        corrected == WikidataLinkRule(predicted.series, target_df)
        blocked   == post_classification_blocking(
                         corrected.series, wd_df, target_df, fields)
    IN  IF predicted.raised THEN [raised |-> "predict", series |-> <<>>]
        ELSE IF corrected.raised THEN [raised |-> "ValueError", series |-> <<>>]
        ELSE IF blocked.raised THEN [raised |-> "TypeError", series |-> <<>>]
        ELSE [raised |-> "none", series |-> blocked.series]

\* lines 138-149 and 216-227: from the padded matrix to the corrected
\* predictions; [raised, series]
Classify(classifier, fv, wd_df, target_df, fields) ==
    LET predicted == Predict(classifier, fv)
        blocked   == post_classification_blocking(
                         predicted.series, wd_df, target_df, fields)
        corrected == WikidataLinkRule(blocked.series, target_df)
    IN  IF predicted.raised THEN [raised |-> "predict", series |-> <<>>]
        ELSE IF blocked.raised THEN [raised |-> "TypeError", series |-> <<>>]
        ELSE IF corrected.raised THEN [raised |-> "ValueError", series |-> <<>>]
        ELSE [raised |-> "none", series |-> corrected.series]

\* line 125: all(os.path.isfile(p) for p in ...)
\* A slip: any() instead of all().
UseCacheIfAny(found) == found # {}

UseCache(found) == found = CacheFiles

FilesOnDisk ==
    {f \in CacheFiles :
        \/ f = "fv" /\ cache_fv.exists
        \/ f = "wd" /\ cache_wd.exists
        \/ f = "target" /\ cache_target.exists}

\* The models that are loaded: instances of a supported kind, which expect
\* the one column that feature extraction gives, or one or two more.
ClassifierWidths == {1, 2, 3}

Classifiers ==
    {[kind |-> "NaiveBayesClassifier", expected |-> e, has_name |-> FALSE] :
        e \in ClassifierWidths}

FieldChoices == {<<>>, <<NAME>>}

TargetRecords ==
    [name : {NameA, NameB}, url : {<<>>, <<WikidataUrlOfQ4>>}]

InitClassify ==
    /\ c_chunk_size \in 1..Len(WdOrder)
    /\ c_candidates \in {cs \in SUBSET PossiblePairs :
            \A q \in ToSet(WdOrder) : \E pair \in cs : pair[1] = q}
    /\ c_evidence \in [ToSet(PairOrder) -> RawScores]
    /\ \A pair \in ToSet(PairOrder) : pair \notin c_candidates => c_evidence[pair] = 1
    /\ c_url_column \in BOOLEAN
    /\ c_target_db \in [ToSet(TargetOrder) -> TargetRecords]
    /\ c_target_db["T2"] = [name |-> NameB, url |-> <<>>]
    /\ ~c_url_column => c_target_db["T1"].url = <<>>
    /\ cache_fv = NoFile
    /\ cache_wd = NoFile
    /\ cache_target = NoFile
    /\ c_run = 0
    /\ c_pc = "idle"
    /\ c_classifier = <<>>
    /\ c_fields = <<>>
    /\ c_found = {}
    /\ c_path = "none"
    /\ c_i = 0
    /\ all_feature_vectors = None
    /\ all_wd_chunks = None
    /\ all_target_chunks = None
    /\ c_padded = NotPadded
    /\ c_corrected = <<>>
    /\ c_emitted = <<>>
    /\ c_built = 0
    /\ c_raised = "none"
    /\ c_previous = NoRun

IdleClassify ==
    /\ c_chunk_size = 0
    /\ c_candidates = {}
    /\ c_evidence = <<>>
    /\ c_url_column = FALSE
    /\ c_target_db = <<>>
    /\ cache_fv = NoFile
    /\ cache_wd = NoFile
    /\ cache_target = NoFile
    /\ c_run = 0
    /\ c_pc = "off"
    /\ c_classifier = <<>>
    /\ c_fields = <<>>
    /\ c_found = {}
    /\ c_path = "none"
    /\ c_i = 0
    /\ all_feature_vectors = None
    /\ all_wd_chunks = None
    /\ all_target_chunks = None
    /\ c_padded = NotPadded
    /\ c_corrected = <<>>
    /\ c_emitted = <<>>
    /\ c_built = 0
    /\ c_raised = "none"
    /\ c_previous = NoRun

otherVars == <<assessVars, vetoVars, wdLinkVars, padVars, linkerVars>>

\* lines 113-127 (and 155-163): the model is loaded and the cache looked for
ExecuteStart ==
    /\ c_pc = "idle"
    /\ c_run < MaxRuns
    /\ c_run' = c_run + 1
    /\ c_classifier' \in Classifiers
    /\ c_fields' \in FieldChoices
    /\ c_found' = FilesOnDisk
    /\ c_path' = IF UseCache(FilesOnDisk) THEN "cache" ELSE "rebuild"
    /\ c_pc' = IF UseCache(FilesOnDisk) THEN "cached" ELSE "chunks"
    /\ c_i' = 0
    /\ all_feature_vectors' = None
    /\ all_wd_chunks' = None
    /\ all_target_chunks' = None
    /\ c_padded' = NotPadded
    /\ c_corrected' = <<>>
    /\ c_emitted' = <<>>
    /\ c_built' = 0
    /\ c_raised' = "none"
    /\ UNCHANGED <<worldVars, cacheVars, historyVars, otherVars>>

\* lines 129-151: the cached dataset is classified in one batch
ClassifyCached ==
    /\ c_pc = "cached"
    /\ LET fvectors == add_missing_feature_columns(c_classifier, cache_fv.data).fv
           res == Classify(c_classifier, fvectors,
                           cache_wd.data, cache_target.data, c_fields)
       IN  /\ c_padded' = [before |-> cache_fv.data, after |-> fvectors]
           /\ IF res.raised # "none"
              THEN /\ c_raised' = res.raised
                   /\ c_pc' = "failed"
                   /\ UNCHANGED <<c_corrected, c_emitted>>
              ELSE /\ c_corrected' = res.series
                   /\ c_emitted' = Append(c_emitted,
                                          Batch(res.series, CONFIDENCE_THRESHOLD))
                   /\ c_pc' = "done"
                   /\ UNCHANGED c_raised
    /\ UNCHANGED <<c_run, c_classifier, c_fields, c_found, c_path, c_i,
                   all_feature_vectors, all_wd_chunks, all_target_chunks, c_built>>
    /\ UNCHANGED <<worldVars, cacheVars, historyVars, otherVars>>

\* lines 165-231: one chunk, from blocking to the yield
ClassifyChunk ==
    /\ c_pc = "chunks"
    /\ c_i < NumChunks
    /\ LET wd_chunk == WdChunk(c_i + 1)
           samples == Samples(wd_chunk)
           target_chunk == TargetChunk(samples)
           feature_vectors == ExtractFeatures(samples)
           first == ~all_feature_vectors.set
           padded == add_missing_feature_columns(c_classifier, feature_vectors).fv
           res == Classify(c_classifier, padded, wd_chunk, target_chunk, c_fields)
       IN  /\ c_i' = c_i + 1
           /\ c_built' = c_built + 1
           \* lines 191-212.  For the first chunk all_feature_vectors is the
           \* very object that line 214 pads.
           /\ all_feature_vectors' =
                [set  |-> TRUE,
                 data |-> IF first THEN padded
                          ELSE ConcatMatrices(all_feature_vectors.data, feature_vectors)]
           /\ all_wd_chunks' =
                [set  |-> TRUE,
                 data |-> IF first THEN wd_chunk
                          ELSE ConcatFrames(all_wd_chunks.data, wd_chunk)]
           /\ all_target_chunks' =
                [set  |-> TRUE,
                 data |-> IF first THEN target_chunk
                          ELSE ConcatFrames(all_target_chunks.data, target_chunk)]
           /\ c_padded' = [before |-> feature_vectors, after |-> padded]
           /\ IF res.raised # "none"
              THEN /\ c_raised' = res.raised
                   /\ c_pc' = "failed"
                   /\ UNCHANGED <<c_corrected, c_emitted>>
              ELSE /\ c_corrected' = res.series
                   /\ c_emitted' = Append(c_emitted,
                                          Batch(res.series, CONFIDENCE_THRESHOLD))
                   /\ UNCHANGED <<c_raised, c_pc>>
    /\ UNCHANGED <<c_run, c_classifier, c_fields, c_found, c_path>>
    /\ UNCHANGED <<worldVars, cacheVars, historyVars, otherVars>>

\* line 234
DumpFeatureVectors ==
    /\ c_pc = "chunks"
    /\ c_i = NumChunks
    /\ cache_fv' = [exists |-> TRUE, data |-> all_feature_vectors.data]
    /\ c_pc' = "dump_wd"
    /\ UNCHANGED <<cache_wd, cache_target>>
    /\ UNCHANGED <<c_run, c_classifier, c_fields, c_found, c_path, c_i,
                   all_feature_vectors, all_wd_chunks, all_target_chunks,
                   c_padded, c_corrected, c_emitted, c_built, c_raised>>
    /\ UNCHANGED <<worldVars, historyVars, otherVars>>

\* line 235
DumpWikidataChunks ==
    /\ c_pc = "dump_wd"
    /\ cache_wd' = [exists |-> TRUE, data |-> all_wd_chunks.data]
    /\ c_pc' = "dump_target"
    /\ UNCHANGED <<cache_fv, cache_target>>
    /\ UNCHANGED <<c_run, c_classifier, c_fields, c_found, c_path, c_i,
                   all_feature_vectors, all_wd_chunks, all_target_chunks,
                   c_padded, c_corrected, c_emitted, c_built, c_raised>>
    /\ UNCHANGED <<worldVars, historyVars, otherVars>>

\* line 236
DumpTargetChunks ==
    /\ c_pc = "dump_target"
    /\ cache_target' = [exists |-> TRUE, data |-> all_target_chunks.data]
    /\ c_pc' = "done"
    /\ UNCHANGED <<cache_fv, cache_wd>>
    /\ UNCHANGED <<c_run, c_classifier, c_fields, c_found, c_path, c_i,
                   all_feature_vectors, all_wd_chunks, all_target_chunks,
                   c_padded, c_corrected, c_emitted, c_built, c_raised>>
    /\ UNCHANGED <<worldVars, historyVars, otherVars>>

\* lines 234-236: to_pickle raises (no room, no permission) or the process
\* is stopped between two of the three writes
DumpInterrupted ==
    /\ c_pc \in {"dump_wd", "dump_target"}
    /\ c_raised' = "OSError"
    /\ c_pc' = "failed"
    /\ UNCHANGED <<c_run, c_classifier, c_fields, c_found, c_path, c_i,
                   all_feature_vectors, all_wd_chunks, all_target_chunks,
                   c_padded, c_corrected, c_emitted, c_built>>
    /\ UNCHANGED <<worldVars, cacheVars, historyVars, otherVars>>

\* The command is run again.
RunAgain ==
    /\ c_pc \in {"done", "failed"}
    /\ c_run < MaxRuns
    /\ c_pc' = "idle"
    /\ c_previous' = [path |-> c_path, pc |-> c_pc, classifier |-> c_classifier,
                      fields |-> c_fields, emitted |-> c_emitted]
    /\ UNCHANGED <<c_run, c_classifier, c_fields, c_found, c_path, c_i,
                   all_feature_vectors, all_wd_chunks, all_target_chunks,
                   c_padded, c_corrected, c_emitted, c_built, c_raised>>
    /\ UNCHANGED <<worldVars, cacheVars, otherVars>>

NextClassify ==
    \/ ExecuteStart
    \/ ClassifyCached
    \/ ClassifyChunk
    \/ DumpFeatureVectors
    \/ DumpWikidataChunks
    \/ DumpTargetChunks
    \/ DumpInterrupted
    \/ RunAgain

----------------------------------------------------------------------------
(***************************************************************************)
(* linker/train.py: execute                                                *)
(*                                                                         *)
(* Two Wikidata records and two target records, each side cut into chunks. *)
(* wd_generator and target_generator are generators: what a loop has taken *)
(* from one of them is gone for the next loop over it.                     *)
(***************************************************************************)

TrainWdOrder == <<"Q1", "Q2">>
TrainTargetOrder == <<"T1", "T2">>
TrainPairOrder ==
    <<<<"Q1", "T1">>, <<"Q1", "T2">>, <<"Q2", "T1">>, <<"Q2", "T2">>>>
TrainPairs == ToSet(TrainPairOrder)

\* The k-th chunk of a dataset read size records at a time.
ChunkOf(order, size, k) ==
    {order[n] : n \in {m \in 1..Len(order) : (m - 1) \div size = k - 1}}

ChunkCount(order, size) == (Len(order) + size - 1) \div size

NumWdChunks == ChunkCount(TrainWdOrder, t_wd_size)
NumTargetChunks == ChunkCount(TrainTargetOrder, t_target_size)

TrainWdChunk(i) == ChunkOf(TrainWdOrder, t_wd_size, i)
TrainTargetChunk(j) == ChunkOf(TrainTargetOrder, t_target_size, j)

\* blocking.train_test_block(wd_chunk, target_chunk): the true pairs of the
\* two chunks
train_test_block(wd_chunk, target_chunk) ==
    {pair \in t_truth : pair[1] \in wd_chunk /\ pair[2] \in target_chunk}

\* blocking.full_text_query_block(..., wd_chunk, i, ...): the candidates of
\* the records of the chunk in the whole catalog; it is not given the
\* target chunk
full_text_query_block(wd_chunk) ==
    {pair \in t_full : pair[1] \in wd_chunk}

\* workflow.extract_features(all_samples, wd_chunk, target_chunk): one row
\* per pair of all_samples
TrainExtractFeatures(all_samples, i, j) ==
    LET Sampled(pair) == pair \in all_samples
        pairs == SelectSeq(TrainPairOrder, Sampled)
    IN  [k \in 1..Len(pairs) |-> [idx |-> pairs[k], round |-> <<i, j>>]]

\* pandas.concat of a list of frames: the rows one after the other
RECURSIVE concat(_)
concat(frames) ==
    IF frames = <<>> THEN <<>>
    ELSE frames[1] \o concat(Tail(frames))

NoIndex == [set |-> FALSE, data |-> {}]
NotTrained == [called |-> FALSE, feature_vectors |-> <<>>, positives |-> NoIndex]

InitTrain ==
    /\ t_wd_size \in 1..Len(TrainWdOrder)
    /\ t_target_size \in 1..Len(TrainTargetOrder)
    /\ t_truth \in SUBSET TrainPairs
    /\ t_full \in SUBSET TrainPairs
    /\ t_i = 0
    /\ t_j = 0
    /\ t_feature_vectors = <<>>
    /\ t_positive_samples_index = NoIndex
    /\ t_warnings = <<>>
    /\ t_compared = {}
    /\ t_trained = NotTrained
    /\ t_pc = "outer"

IdleTrain ==
    /\ t_wd_size = 0
    /\ t_target_size = 0
    /\ t_truth = {}
    /\ t_full = {}
    /\ t_i = 0
    /\ t_j = 0
    /\ t_feature_vectors = <<>>
    /\ t_positive_samples_index = NoIndex
    /\ t_warnings = <<>>
    /\ t_compared = {}
    /\ t_trained = NotTrained
    /\ t_pc = "off"


trainOthers == <<assessVars, vetoVars, wdLinkVars, padVars, classifyVars, nestedVars,
                kfoldVars, cliVars, streamVars, pipelineVars>>

\* line 51: the next chunk of wd_generator
TrainNextWdChunk ==
    /\ t_pc = "outer"
    /\ t_i < NumWdChunks
    /\ t_i' = t_i + 1
    /\ t_pc' = "inner"
    /\ UNCHANGED <<t_wd_size, t_target_size, t_truth, t_full, t_j,
                   t_feature_vectors, t_positive_samples_index, t_warnings,
                   t_compared, t_trained>>
    /\ UNCHANGED trainOthers

\* lines 52-72: the next chunk of target_generator and the loop body
TrainCompare ==
    /\ t_pc = "inner"
    /\ t_j < NumTargetChunks
    /\ LET wd_chunk == TrainWdChunk(t_i)
           target_chunk == TrainTargetChunk(t_j + 1)
           positives_from_wd == train_test_block(wd_chunk, target_chunk)
           all_samples == full_text_query_block(wd_chunk)
           actual_positive == all_samples \cap positives_from_wd
           positive_size == Cardinality(positives_from_wd)
           actual_size == Cardinality(actual_positive)
       IN  /\ t_j' = t_j + 1
           /\ t_compared' = t_compared \cup {<<t_i, t_j + 1>>}
           /\ t_warnings' = IF positive_size # actual_size
                            THEN Append(t_warnings, positive_size - actual_size)
                            ELSE t_warnings
           /\ IF t_i = 1
              THEN /\ t_positive_samples_index' =
                        [set |-> TRUE, data |-> actual_positive]
                   /\ t_feature_vectors' = Append(t_feature_vectors,
                        TrainExtractFeatures(all_samples, t_i, t_j + 1))
                   /\ UNCHANGED t_pc
              ELSE IF t_positive_samples_index.set
              THEN /\ t_positive_samples_index' =
                        [set |-> TRUE,
                         data |-> t_positive_samples_index.data \cup actual_positive]
                   /\ t_feature_vectors' = Append(t_feature_vectors,
                        TrainExtractFeatures(all_samples, t_i, t_j + 1))
                   /\ UNCHANGED t_pc
              \* None |= index: TypeError
              ELSE /\ t_pc' = "failed"
                   /\ UNCHANGED <<t_positive_samples_index, t_feature_vectors>>
    /\ UNCHANGED <<t_wd_size, t_target_size, t_truth, t_full, t_i, t_trained>>
    /\ UNCHANGED trainOthers

\* line 52: target_generator has nothing more to give
TrainTargetExhausted ==
    /\ t_pc = "inner"
    /\ t_j = NumTargetChunks
    /\ t_pc' = "outer"
    /\ UNCHANGED <<t_wd_size, t_target_size, t_truth, t_full, t_i, t_j,
                   t_feature_vectors, t_positive_samples_index, t_warnings,
                   t_compared, t_trained>>
    /\ UNCHANGED trainOthers

\* line 73: wd_generator is exhausted; concat of an empty list raises
TrainReturn ==
    /\ t_pc = "outer"
    /\ t_i = NumWdChunks
    /\ IF t_feature_vectors = <<>>
       THEN /\ t_pc' = "failed"
            /\ UNCHANGED t_trained
       ELSE /\ t_pc' = "returned"
            /\ t_trained' = [called |-> TRUE,
                             feature_vectors |-> concat(t_feature_vectors),
                             positives |-> t_positive_samples_index]
    /\ UNCHANGED <<t_wd_size, t_target_size, t_truth, t_full, t_i, t_j,
                   t_feature_vectors, t_positive_samples_index, t_warnings,
                   t_compared>>
    /\ UNCHANGED trainOthers

NextTrain ==
    \/ TrainNextWdChunk
    \/ TrainCompare
    \/ TrainTargetExhausted
    \/ TrainReturn

----------------------------------------------------------------------------
(***************************************************************************)
(* linker/evaluate.py: _run_nested and nested_k_fold_with_grid_search      *)
(***************************************************************************)

MaxFolds == 3
MaxScore == 1

NAIVE_BAYES == "naive_bayes"
SVC == "support_vector_machines"
SINGLE_LAYER_PERCEPTRON == "single_layer_perceptron"
MULTI_LAYER_PERCEPTRON == "multi_layer_perceptron"
ClassifierKinds ==
    {NAIVE_BAYES, SVC, SINGLE_LAYER_PERCEPTRON, MULTI_LAYER_PERCEPTRON}

\* the scores of the metric
MetricScores == 0..MaxScore

\* A slip in lines 290-293: the multi-layer perceptron alone.
GridSearchUnsupportedForMlp(classifier) == classifier = MULTI_LAYER_PERCEPTRON

\* lines 290-293
GridSearchUnsupported(classifier) ==
    classifier \in {SINGLE_LAYER_PERCEPTRON, MULTI_LAYER_PERCEPTRON}

\* result = defaultdict(list): a key that was never set reads as []
EmptyResult == [train |-> <<>>, test |-> <<>>, best_models |-> <<>>]

\* A slip in line 245: result['best_models'] read and left in place.
keep_best_models(result) == result

\* line 245: result.pop('best_models') takes the key away
pop_best_models(result) == [result EXCEPT !.best_models = <<>>]

\* lines 246-251: LINKER_NESTED_CV_BEST_MODEL formatted with the fold
BestModelPath(classifier, k) == <<"best_model", classifier, k>>

BestModelPaths == {BestModelPath(c, k) : c \in ClassifierKinds, k \in 1..MaxFolds}

NoModel == [fit |-> 0]
NotDumped == [written |-> FALSE, result |-> EmptyResult]

InitNested ==
    /\ n_classifier \in ClassifierKinds
    /\ n_k \in 2..MaxFolds
    /\ n_built = FALSE
    /\ n_initialized = FALSE
    /\ n_fold = 0
    /\ n_fits = <<>>
    /\ n_result = EmptyResult
    /\ n_models = <<>>
    /\ n_persisted = 0
    /\ n_disk = [path \in BestModelPaths |-> NoModel]
    /\ n_dumped = NotDumped
    /\ n_raised = "none"
    /\ n_pc = "call"

IdleNested ==
    /\ n_classifier = ""
    /\ n_k = 0
    /\ n_built = FALSE
    /\ n_initialized = FALSE
    /\ n_fold = 0
    /\ n_fits = <<>>
    /\ n_result = EmptyResult
    /\ n_models = <<>>
    /\ n_persisted = 0
    /\ n_disk = <<>>
    /\ n_dumped = NotDumped
    /\ n_raised = "none"
    /\ n_pc = "off"


nestedOthers == <<assessVars, vetoVars, wdLinkVars, padVars, classifyVars, trainVars,
                 kfoldVars, cliVars, streamVars, pipelineVars>>

\* lines 290-318: the guard, then the dataset, the model and the splitters
NestedCall ==
    /\ n_pc = "call"
    /\ IF GridSearchUnsupported(n_classifier)
       THEN /\ n_raised' = "NotImplementedError"
            /\ n_pc' = "failed"
            /\ UNCHANGED <<n_built, n_initialized>>
       ELSE /\ n_built' = TRUE
            /\ n_initialized' = TRUE
            /\ n_pc' = "folds"
            /\ UNCHANGED n_raised
    /\ UNCHANGED <<n_classifier, n_k, n_fold, n_fits, n_result, n_models,
                   n_persisted, n_disk, n_dumped>>
    /\ UNCHANGED nestedOthers

\* lines 320-329: one outer fold.  Each fit leaves a new best_estimator_.
NestedFold ==
    /\ n_pc = "folds"
    /\ n_fold < n_k
    /\ \E best_score \in MetricScores, test_score \in MetricScores :
          LET best_model == [fit |-> n_fold + 1]
          IN  /\ n_fits' = Append(n_fits, [train |-> best_score,
                                           test  |-> test_score,
                                           model |-> best_model])
              /\ n_result' =
                    [train       |-> Append(n_result.train, best_score),
                     test        |-> Append(n_result.test, test_score),
                     best_models |-> Append(n_result.best_models, best_model)]
    /\ n_fold' = n_fold + 1
    /\ UNCHANGED <<n_classifier, n_k, n_built, n_initialized, n_models,
                   n_persisted, n_disk, n_dumped, n_raised, n_pc>>
    /\ UNCHANGED nestedOthers

\* lines 331 and 242-245: the result is returned and the models popped
NestedReturn ==
    /\ n_pc = "folds"
    /\ n_fold = n_k
    /\ n_models' = n_result.best_models
    /\ n_result' = pop_best_models(n_result)
    /\ n_pc' = "persist"
    /\ UNCHANGED <<n_classifier, n_k, n_built, n_initialized, n_fold, n_fits,
                   n_persisted, n_disk, n_dumped, n_raised>>
    /\ UNCHANGED nestedOthers

\* lines 245-258: the next model is persisted, its path put in the result
NestedPersist ==
    /\ n_pc = "persist"
    /\ n_persisted < Len(n_models)
    /\ LET k == n_persisted + 1
           model_out == BestModelPath(n_classifier, k)
       IN  /\ n_result' = [n_result EXCEPT
                              !.best_models = Append(@, model_out)]
           /\ n_disk' = [n_disk EXCEPT ![model_out] = n_models[k]]
           /\ n_persisted' = k
    /\ UNCHANGED <<n_classifier, n_k, n_built, n_initialized, n_fold, n_fits,
                   n_models, n_dumped, n_raised, n_pc>>
    /\ UNCHANGED nestedOthers

\* lines 260-262: json.dump(result, out)
NestedDump ==
    /\ n_pc = "persist"
    /\ n_persisted = Len(n_models)
    /\ n_dumped' = [written |-> TRUE, result |-> n_result]
    /\ n_pc' = "dumped"
    /\ UNCHANGED <<n_classifier, n_k, n_built, n_initialized, n_fold, n_fits,
                   n_result, n_models, n_persisted, n_disk, n_raised>>
    /\ UNCHANGED nestedOthers

NextNested ==
    \/ NestedCall
    \/ NestedFold
    \/ NestedReturn
    \/ NestedPersist
    \/ NestedDump

----------------------------------------------------------------------------
(***************************************************************************)
(* linker/evaluate.py: average_k_fold                                      *)
(*                                                                         *)
(* The dataset has four pairs; the stratified k-fold cuts its index into k *)
(* test folds, none empty.  What a fitted model predicts on a test fold is *)
(* any part of that fold.                                                  *)
(***************************************************************************)

DatasetIndex == {"p1", "p2", "p3", "p4"}

\* k_fold.split(dataset, binary_target_variables): k test folds that cut
\* the index
Splits(k) ==
    {split \in [1..k -> SUBSET DatasetIndex \ {{}}] :
        /\ UNION {split[i] : i \in 1..k} = DatasetIndex
        /\ \A i, j \in 1..k : i # j => split[i] \cap split[j] = {}}

\* rl.precision, rl.recall and rl.fscore of _compute_performance, each as
\* <<numerator, denominator>>
Precision(links_true, links_pred) ==
    <<Cardinality(links_true \cap links_pred), Cardinality(links_pred)>>

Recall(links_true, links_pred) ==
    <<Cardinality(links_true \cap links_pred), Cardinality(links_true)>>

FScore(links_true, links_pred) ==
    <<2 * Cardinality(links_true \cap links_pred),
      Cardinality(links_true) + Cardinality(links_pred)>>

\* A slip in line 361: predictions = preds.
replace_predictions(predictions, preds) == preds

\* line 361: predictions |= preds, the union of two indices
union_predictions(predictions, preds) == predictions \cup preds

NotReturned == [done |-> FALSE, predictions |-> NoIndex]

InitKFold ==
    /\ f_positive \in SUBSET DatasetIndex
    /\ f_k \in 2..MaxFolds
    /\ f_split \in Splits(f_k)
    /\ f_fold = 0
    /\ f_models = <<>>
    /\ f_preds = <<>>
    /\ f_predictions = NoIndex
    /\ f_precisions = <<>>
    /\ f_recalls = <<>>
    /\ f_fscores = <<>>
    /\ f_returned = NotReturned
    /\ f_pc = "folds"

IdleKFold ==
    /\ f_positive = {}
    /\ f_k = 0
    /\ f_split = <<>>
    /\ f_fold = 0
    /\ f_models = <<>>
    /\ f_preds = <<>>
    /\ f_predictions = NoIndex
    /\ f_precisions = <<>>
    /\ f_recalls = <<>>
    /\ f_fscores = <<>>
    /\ f_returned = NotReturned
    /\ f_pc = "off"


kfoldOthers == <<assessVars, vetoVars, wdLinkVars, padVars, classifyVars, trainVars,
                nestedVars, cliVars, streamVars, pipelineVars>>

\* lines 343-365: one fold
AverageFold ==
    /\ f_pc = "folds"
    /\ f_fold < f_k
    /\ LET test == f_split[f_fold + 1]
           training == DatasetIndex \ test
           \* line 348: a new instance, the next one
           model == Len(f_models) + 1
       IN  \E preds \in SUBSET test :
              /\ f_models' = Append(f_models,
                     [instance |-> model,
                      fit_on   |-> training,
                      positive |-> f_positive \cap training])
              /\ f_preds' = Append(f_preds, preds)
              /\ f_predictions' =
                    IF ~f_predictions.set
                    THEN [set |-> TRUE, data |-> preds]
                    ELSE [set |-> TRUE,
                          data |-> union_predictions(f_predictions.data, preds)]
              /\ f_precisions' =
                    Append(f_precisions, Precision(f_positive \cap test, preds))
              /\ f_recalls' =
                    Append(f_recalls, Recall(f_positive \cap test, preds))
              /\ f_fscores' =
                    Append(f_fscores, FScore(f_positive \cap test, preds))
    /\ f_fold' = f_fold + 1
    /\ UNCHANGED <<f_positive, f_k, f_split, f_returned, f_pc>>
    /\ UNCHANGED kfoldOthers

\* lines 367-375
AverageReturn ==
    /\ f_pc = "folds"
    /\ f_fold = f_k
    /\ f_returned' = [done |-> TRUE, predictions |-> f_predictions]
    /\ f_pc' = "returned"
    /\ UNCHANGED <<f_positive, f_k, f_split, f_fold, f_models, f_preds,
                   f_predictions, f_precisions, f_recalls, f_fscores>>
    /\ UNCHANGED kfoldOthers

NextKFold ==
    \/ AverageFold
    \/ AverageReturn

----------------------------------------------------------------------------
(***************************************************************************)
(* linker/classify.py: cli                                                 *)
(*                                                                         *)
(* The command for one catalog and entity, with the model there or not, a  *)
(* results file of an earlier run there or not, and execute as the batches *)
(* it yields.                                                              *)
(***************************************************************************)

MaxBatches == 2
MaxBatchRows == 2

CliClassifiers == {"nb", "svm"}
CliPairs == {<<"Q1", "T1">>, <<"Q1", "T2">>, <<"Q2", "T1">>}
OldRow == <<"Q9", "T9">>

\* lines 73-74: os.path.join(dir_io, LINKER_MODEL % (target, target_type,
\* classifier))
ModelPathOf(classifier) == <<"dir_io", "catalog", "entity", classifier, "model">>

\* lines 76-77
ResultsPathOf(classifier) == <<"dir_io", "catalog", "entity", classifier, "result">>

\* line 81
ErrMsg(model_path) == <<"No classifier model found at path: ", model_path>>

\* A slip in line 80: the test left out.
ModelNeverMissing(exists) == FALSE

\* line 80: not os.path.isfile(model_path)
ModelMissing(exists) == ~exists

\* line 108: dict(predictions.to_dict().keys()), QID -> TID; of the pairs
\* of one QID the last one stays
UploadLinks(chunk) ==
    {chunk[k] : k \in {j \in 1..Len(chunk) :
        \A m \in j + 1..Len(chunk) : chunk[m][1] # chunk[j][1]}}

NoFileOfResults == [exists |-> FALSE, rows |-> <<>>]
NotRaised == [type |-> "none", message |-> <<>>]

\* A slip in lines 87-88: the file of an earlier run left where it is.
KeepResultsFile(results) == results

\* lines 87-88: os.remove(results_path) when it is a file
RemoveResultsFile(results) ==
    IF results.exists THEN NoFileOfResults ELSE results

CliBatchSeqs ==
    UNION {[1..n -> InjSeqs(CliPairs, MaxBatchRows)] : n \in 1..MaxBatches}

InitCli ==
    /\ cli_classifier \in CliClassifiers
    /\ cli_model_exists \in BOOLEAN
    /\ cli_upload \in BOOLEAN
    /\ cli_batches \in CliBatchSeqs
    /\ cli_results \in {NoFileOfResults, [exists |-> TRUE, rows |-> <<OldRow>>]}
    /\ cli_old = cli_results
    /\ cli_taken = 0
    /\ cli_uploaded = <<>>
    /\ cli_raised = NotRaised
    /\ cli_pc = "start"

IdleCli ==
    /\ cli_classifier = ""
    /\ cli_model_exists = FALSE
    /\ cli_upload = FALSE
    /\ cli_batches = <<>>
    /\ cli_results = NoFileOfResults
    /\ cli_old = NoFileOfResults
    /\ cli_taken = 0
    /\ cli_uploaded = <<>>
    /\ cli_raised = NotRaised
    /\ cli_pc = "off"


cliOthers == <<assessVars, vetoVars, wdLinkVars, padVars, classifyVars, trainVars,
              nestedVars, kfoldVars, streamVars, pipelineVars>>

\* lines 72-96: the paths, the test for the model, the old results removed
CliStart ==
    /\ cli_pc = "start"
    /\ IF ModelMissing(cli_model_exists)
       THEN /\ cli_raised' = [type    |-> "FileNotFoundError",
                              message |-> ErrMsg(ModelPathOf(cli_classifier))]
            /\ cli_pc' = "failed"
            /\ UNCHANGED cli_results
       ELSE /\ cli_results' = RemoveResultsFile(cli_results)
            /\ cli_pc' = "chunks"
            /\ UNCHANGED cli_raised
    /\ UNCHANGED <<cli_classifier, cli_model_exists, cli_upload, cli_batches,
                   cli_old, cli_taken, cli_uploaded>>
    /\ UNCHANGED cliOthers

\* lines 98-102: the next batch of execute, uploaded and appended
CliChunk ==
    /\ cli_pc = "chunks"
    /\ cli_taken < Len(cli_batches)
    /\ LET chunk == cli_batches[cli_taken + 1]
       IN  /\ cli_uploaded' = IF cli_upload
                              THEN Append(cli_uploaded, UploadLinks(chunk))
                              ELSE cli_uploaded
           /\ cli_results' = [exists |-> TRUE, rows |-> cli_results.rows \o chunk]
    /\ cli_taken' = cli_taken + 1
    /\ UNCHANGED <<cli_classifier, cli_model_exists, cli_upload, cli_batches,
                   cli_old, cli_raised, cli_pc>>
    /\ UNCHANGED cliOthers

\* line 104
CliComplete ==
    /\ cli_pc = "chunks"
    /\ cli_taken = Len(cli_batches)
    /\ cli_pc' = "done"
    /\ UNCHANGED <<cli_classifier, cli_model_exists, cli_upload, cli_batches,
                   cli_results, cli_old, cli_taken, cli_uploaded, cli_raised>>
    /\ UNCHANGED cliOthers

NextCli ==
    \/ CliStart
    \/ CliChunk
    \/ CliComplete

----------------------------------------------------------------------------
(***************************************************************************)
(* linker/classify.py: cli driving the generator execute                   *)
(*                                                                         *)
(* execute is a generator: its body runs when cli asks for the next batch, *)
(* up to the next yield, and cli handles the batch before it asks again.   *)
(* Here a chunk is its number; what a batch holds is left out.  A chunk    *)
(* may fail in execute, and the upload and the write of cli may fail.      *)
(***************************************************************************)

MaxChunks == 3
MaxStreamRuns == 2

Event(ev, i) == [ev |-> ev, i |-> i]

NoStreamRun == [path |-> "none", raised |-> "none", pc |-> "none"]

\* A slip in lines 99-100: the upload left out.
AfterYieldNoUpload(upload) == "write"

\* lines 99-102: what cli does first with a batch
AfterYield(upload) == IF upload THEN "upload" ELSE "write"

\* A slip in lines 233-236: the dumps inside the loop, after the first chunk.
LoopExhaustedEarly(i, chunks) == i >= 1 \/ i = chunks

\* line 165: wd_generator has no chunk left
LoopExhausted(i, chunks) == i = chunks

\* lines 234-236: the order of the three to_pickle calls
DumpOrder == <<"fv", "wd", "target">>

InitStream ==
    /\ s_chunks \in 0..MaxChunks
    /\ s_fails_at \in 0..s_chunks
    /\ s_upload \in BOOLEAN
    /\ s_cache \in SUBSET CacheFiles
    /\ s_cache_start = s_cache
    /\ s_run = 0
    /\ s_path = "none"
    /\ s_i = 0
    /\ s_log = <<>>
    /\ s_results \in {<<>>, <<0>>}
    /\ s_raised = "none"
    /\ s_before = NoStreamRun
    /\ s_pc = "start"

IdleStream ==
    /\ s_chunks = 0
    /\ s_fails_at = 0
    /\ s_upload = FALSE
    /\ s_cache = {}
    /\ s_cache_start = {}
    /\ s_run = 0
    /\ s_path = "none"
    /\ s_i = 0
    /\ s_log = <<>>
    /\ s_results = <<>>
    /\ s_raised = "none"
    /\ s_before = NoStreamRun
    /\ s_pc = "off"

streamOthers == <<assessVars, vetoVars, wdLinkVars, padVars, classifyVars, trainVars,
                 nestedVars, kfoldVars, cliVars, pipelineVars>>

\* cli lines 85-98 and execute lines 113-127: the old results removed, the
\* generator made and asked for its first batch, the cache looked for
StreamCli ==
    /\ s_pc = "start"
    /\ s_run' = s_run + 1
    /\ s_results' = <<>>
    /\ s_cache_start' = s_cache
    /\ s_path' = IF UseCache(s_cache) THEN "cache" ELSE "rebuild"
    /\ s_pc' = "next"
    /\ UNCHANGED <<s_chunks, s_fails_at, s_upload, s_cache, s_i, s_log,
                   s_raised, s_before>>
    /\ UNCHANGED streamOthers

\* execute lines 129-151: the one batch of the cached dataset
ExecuteCachedBatch ==
    /\ s_pc = "next" /\ s_path = "cache" /\ s_i = 0
    /\ IF s_fails_at = 1
       THEN /\ s_raised' = "chunk"
            /\ s_pc' = "failed"
            /\ UNCHANGED <<s_i, s_log>>
       ELSE /\ s_i' = 1
            /\ s_log' = Append(s_log, Event("emit", 1))
            /\ s_pc' = AfterYield(s_upload)
            /\ UNCHANGED s_raised
    /\ UNCHANGED <<s_chunks, s_fails_at, s_upload, s_cache, s_cache_start, s_run,
                   s_path, s_results, s_before>>
    /\ UNCHANGED streamOthers

\* execute after line 151, asked again: the generator ends, cli line 104
ExecuteCachedReturn ==
    /\ s_pc = "next" /\ s_path = "cache" /\ s_i = 1
    /\ s_pc' = "done"
    /\ UNCHANGED <<s_chunks, s_fails_at, s_upload, s_cache, s_cache_start, s_run,
                   s_path, s_i, s_log, s_results, s_raised, s_before>>
    /\ UNCHANGED streamOthers

\* execute lines 165-231: the next chunk, from blocking to the yield
ExecuteChunk ==
    /\ s_pc = "next" /\ s_path = "rebuild"
    /\ ~LoopExhausted(s_i, s_chunks)
    /\ s_i' = s_i + 1
    /\ IF s_fails_at = s_i + 1
       THEN /\ s_log' = Append(s_log, Event("block", s_i + 1))
            /\ s_raised' = "chunk"
            /\ s_pc' = "failed"
       ELSE /\ s_log' = s_log \o <<Event("block", s_i + 1), Event("emit", s_i + 1)>>
            /\ s_pc' = AfterYield(s_upload)
            /\ UNCHANGED s_raised
    /\ UNCHANGED <<s_chunks, s_fails_at, s_upload, s_cache, s_cache_start, s_run,
                   s_path, s_results, s_before>>
    /\ UNCHANGED streamOthers

\* execute lines 233-236, then cli line 104: the three dumps, of which the
\* first k go through; without any chunk all_feature_vectors is None and
\* the first dump raises
ExecuteDump ==
    /\ s_pc = "next" /\ s_path = "rebuild"
    /\ LoopExhausted(s_i, s_chunks)
    /\ \E k \in 0..Len(DumpOrder) :
          /\ s_i = 0 => k = 0
          /\ s_cache' = s_cache \cup {DumpOrder[j] : j \in 1..k}
          /\ s_log' = s_log \o [j \in 1..k |-> Event(DumpOrder[j], s_i)]
          /\ IF k = Len(DumpOrder)
             THEN s_pc' = "done" /\ UNCHANGED s_raised
             ELSE s_pc' = "failed" /\ s_raised' = "dump"
    /\ UNCHANGED <<s_chunks, s_fails_at, s_upload, s_cache_start, s_run, s_path,
                   s_i, s_results, s_before>>
    /\ UNCHANGED streamOthers

\* cli lines 99-100: the batch uploaded
CliUpload ==
    /\ s_pc = "upload"
    /\ s_log' = Append(s_log, Event("upload", s_i))
    /\ s_pc' = "write"
    /\ UNCHANGED <<s_chunks, s_fails_at, s_upload, s_cache, s_cache_start, s_run,
                   s_path, s_i, s_results, s_raised, s_before>>
    /\ UNCHANGED streamOthers

\* cli line 100 raises: the generator is left at its yield and closed
CliUploadFails ==
    /\ s_pc = "upload"
    /\ s_raised' = "upload"
    /\ s_pc' = "failed"
    /\ UNCHANGED <<s_chunks, s_fails_at, s_upload, s_cache, s_cache_start, s_run,
                   s_path, s_i, s_log, s_results, s_before>>
    /\ UNCHANGED streamOthers

\* cli line 102: the batch appended to the results file, the next one asked
\* for
CliWrite ==
    /\ s_pc = "write"
    /\ s_results' = Append(s_results, s_i)
    /\ s_log' = Append(s_log, Event("append", s_i))
    /\ s_pc' = "next"
    /\ UNCHANGED <<s_chunks, s_fails_at, s_upload, s_cache, s_cache_start, s_run,
                   s_path, s_i, s_raised, s_before>>
    /\ UNCHANGED streamOthers

\* cli line 102 raises
CliWriteFails ==
    /\ s_pc = "write"
    /\ s_raised' = "write"
    /\ s_pc' = "failed"
    /\ UNCHANGED <<s_chunks, s_fails_at, s_upload, s_cache, s_cache_start, s_run,
                   s_path, s_i, s_log, s_results, s_before>>
    /\ UNCHANGED streamOthers

\* The command is given again.
StreamAgain ==
    /\ s_pc \in {"done", "failed"}
    /\ s_run < MaxStreamRuns
    /\ s_before' = [path |-> s_path, raised |-> s_raised, pc |-> s_pc]
    /\ s_path' = "none"
    /\ s_i' = 0
    /\ s_log' = <<>>
    /\ s_raised' = "none"
    /\ s_pc' = "start"
    /\ UNCHANGED <<s_chunks, s_fails_at, s_upload, s_cache, s_cache_start, s_run,
                   s_results>>
    /\ UNCHANGED streamOthers

NextStream ==
    \/ StreamCli
    \/ ExecuteCachedBatch
    \/ ExecuteCachedReturn
    \/ ExecuteChunk
    \/ ExecuteDump
    \/ CliUpload
    \/ CliUploadFails
    \/ CliWrite
    \/ CliWriteFails
    \/ StreamAgain

----------------------------------------------------------------------------
(***************************************************************************)
(* pipeline.py                                                             *)
(*                                                                         *)
(* The run for one target.  A command that is invoked returns, raises      *)
(* SystemExit (what a click command does when it ends) or raises another   *)
(* exception.  The entity types of the target come from target_database.   *)
(***************************************************************************)

MaxEntities == 2

PipelineTarget == "discogs"
EntityTypes == {"musician", "band", ""}
Outcomes == {"return", "SystemExit", "Exception"}

\* list.insert(k, x)
list_insert(l, k, x) == SubSeq(l, 1, k) \o <<x>> \o SubSeq(l, k + 1, Len(l))

\* A slip in line 122: every exception caught.
invoke_no_exit_at_all(outcome) == FALSE

\* lines 118-123: does the exception of the command leave _invoke_no_exit
invoke_no_exit(outcome) == outcome \notin {"return", "SystemExit"}

\* line 111: args.insert(1, entity_type), on the one list of line 108
insert_entity_type(args, entity_type) == list_insert(args, 1, entity_type)

InitPipeline ==
    /\ pl_importer \in BOOLEAN
    /\ pl_linker \in BOOLEAN
    /\ pl_validator \in BOOLEAN
    /\ pl_upload \in BOOLEAN
    /\ pl_entities \in InjSeqs(EntityTypes, MaxEntities) \ {<<>>}
    /\ pl_e = 0
    /\ pl_args = <<>>
    /\ pl_calls = <<>>
    /\ pl_outcome = "none"
    /\ pl_raised = "none"
    /\ pl_pc = "importer?"

IdlePipeline ==
    /\ pl_importer = FALSE
    /\ pl_linker = FALSE
    /\ pl_validator = FALSE
    /\ pl_upload = FALSE
    /\ pl_entities = <<>>
    /\ pl_e = 0
    /\ pl_args = <<>>
    /\ pl_calls = <<>>
    /\ pl_outcome = "none"
    /\ pl_raised = "none"
    /\ pl_pc = "off"

pipelineOthers == <<assessVars, vetoVars, wdLinkVars, padVars, classifyVars, trainVars,
                   nestedVars, kfoldVars, cliVars, streamVars>>

pipelineInputs == <<pl_importer, pl_linker, pl_validator, pl_upload, pl_entities>>

\* _invoke_no_exit(function, args) at the line `at`, going on at `next`
Invoke(at, function, args, next) ==
    /\ pl_pc = at
    /\ \E outcome \in Outcomes :
          /\ pl_calls' = Append(pl_calls, [command |-> function, args |-> args])
          /\ pl_outcome' = outcome
          /\ IF invoke_no_exit(outcome)
             THEN pl_raised' = "Exception" /\ pl_pc' = "failed"
             ELSE pl_pc' = next /\ UNCHANGED pl_raised
    /\ UNCHANGED <<pipelineInputs, pl_e, pl_args>>
    /\ UNCHANGED pipelineOthers

\* cli lines 66-69
CliImporterTest ==
    /\ pl_pc = "importer?"
    /\ pl_pc' = IF pl_importer THEN "import_cli" ELSE "linker?"
    /\ UNCHANGED <<pipelineInputs, pl_e, pl_args, pl_calls, pl_outcome, pl_raised>>
    /\ UNCHANGED pipelineOthers

\* _importer line 87
InvokeImportCli ==
    Invoke("import_cli", "import_cli", <<PipelineTarget>>, "validate_links")

\* _importer line 89
InvokeValidateLinks ==
    Invoke("validate_links", "validate_links", <<PipelineTarget>>, "linker?")

\* cli lines 71-74, _linker lines 94-95
CliLinkerTest ==
    /\ pl_pc = "linker?"
    /\ pl_pc' = IF pl_linker THEN "linker_loop" ELSE "validator?"
    /\ pl_e' = 0
    /\ UNCHANGED <<pipelineInputs, pl_args, pl_calls, pl_outcome, pl_raised>>
    /\ UNCHANGED pipelineOthers

\* _linker lines 96-98: the next entity type, skipped when it is falsy
LinkerLoop ==
    /\ pl_pc = "linker_loop"
    /\ IF pl_e = Len(pl_entities)
       THEN pl_pc' = "validator?" /\ UNCHANGED pl_e
       ELSE /\ pl_e' = pl_e + 1
            /\ pl_pc' = IF pl_entities[pl_e + 1] = "" THEN "linker_loop"
                        ELSE "evaluate"
    /\ UNCHANGED <<pipelineInputs, pl_args, pl_calls, pl_outcome, pl_raised>>
    /\ UNCHANGED pipelineOthers

\* _linker line 99
InvokeEvaluate ==
    Invoke("evaluate", "evaluate.cli",
           <<"slp", PipelineTarget, pl_entities[pl_e]>>, "train")

\* _linker line 100
InvokeTrain ==
    Invoke("train", "train.cli",
           <<"slp", PipelineTarget, pl_entities[pl_e]>>, "classify")

\* _linker lines 101-103
InvokeClassify ==
    Invoke("classify", "classify.cli",
           <<"slp", PipelineTarget, pl_entities[pl_e],
             IF pl_upload THEN "--upload" ELSE "--no-upload">>, "linker_loop")

\* cli lines 76-79, _validator line 108
CliValidatorTest ==
    /\ pl_pc = "validator?"
    /\ pl_pc' = IF pl_validator THEN "validator_loop" ELSE "done"
    /\ pl_e' = 0
    /\ pl_args' = IF ~pl_validator THEN pl_args
                  ELSE IF pl_upload THEN <<PipelineTarget, "--upload">>
                  ELSE <<PipelineTarget>>
    /\ UNCHANGED <<pipelineInputs, pl_calls, pl_outcome, pl_raised>>
    /\ UNCHANGED pipelineOthers

\* _validator lines 110-112
ValidatorLoop ==
    /\ pl_pc = "validator_loop"
    /\ IF pl_e = Len(pl_entities)
       THEN pl_pc' = "done" /\ UNCHANGED <<pl_e, pl_args>>
       ELSE /\ pl_e' = pl_e + 1
            /\ pl_args' = insert_entity_type(pl_args, pl_entities[pl_e + 1])
            /\ pl_pc' = "dead_ids"
    /\ UNCHANGED <<pipelineInputs, pl_calls, pl_outcome, pl_raised>>
    /\ UNCHANGED pipelineOthers

\* _validator line 113
InvokeDeadIds == Invoke("dead_ids", "dead_ids_cli", pl_args, "links")

\* _validator line 114
InvokeLinks == Invoke("links", "links_cli", pl_args, "bio")

\* _validator line 115
InvokeBio == Invoke("bio", "bio_cli", pl_args, "validator_loop")

NextPipeline ==
    \/ CliImporterTest
    \/ InvokeImportCli
    \/ InvokeValidateLinks
    \/ CliLinkerTest
    \/ LinkerLoop
    \/ InvokeEvaluate
    \/ InvokeTrain
    \/ InvokeClassify
    \/ CliValidatorTest
    \/ ValidatorLoop
    \/ InvokeDeadIds
    \/ InvokeLinks
    \/ InvokeBio

----------------------------------------------------------------------------
(***************************************************************************)
(* Specifications                                                          *)
(***************************************************************************)

IdleLinker ==
    /\ IdleTrain /\ IdleNested /\ IdleKFold /\ IdleCli /\ IdleStream /\ IdlePipeline

AssessStart == InitAssess /\ IdleVeto /\ IdleWdLink /\ IdlePad /\ IdleClassify /\ IdleLinker

SpecAssess == AssessStart /\ [][NextAssess]_vars

VetoStart == IdleAssess /\ InitVeto /\ IdleWdLink /\ IdlePad /\ IdleClassify /\ IdleLinker

SpecVeto == VetoStart /\ [][NextVeto]_vars

WdLinkStart == IdleAssess /\ IdleVeto /\ InitWdLink /\ IdlePad /\ IdleClassify /\ IdleLinker

SpecWdLink == WdLinkStart /\ [][NextWdLink]_vars

PadStart == IdleAssess /\ IdleVeto /\ IdleWdLink /\ InitPad /\ IdleClassify /\ IdleLinker

SpecPad == PadStart /\ [][NextPad]_vars

ClassifyStart == IdleAssess /\ IdleVeto /\ IdleWdLink /\ IdlePad /\ InitClassify /\ IdleLinker

SpecClassify == ClassifyStart /\ [][NextClassify]_vars

TrainStart ==
    /\ IdleAssess /\ IdleVeto /\ IdleWdLink /\ IdlePad /\ IdleClassify
    /\ InitTrain /\ IdleNested /\ IdleKFold /\ IdleCli /\ IdleStream /\ IdlePipeline

SpecTrain == TrainStart /\ [][NextTrain]_vars

NestedStart ==
    /\ IdleAssess /\ IdleVeto /\ IdleWdLink /\ IdlePad /\ IdleClassify
    /\ IdleTrain /\ InitNested /\ IdleKFold /\ IdleCli /\ IdleStream /\ IdlePipeline

SpecNested == NestedStart /\ [][NextNested]_vars

KFoldStart ==
    /\ IdleAssess /\ IdleVeto /\ IdleWdLink /\ IdlePad /\ IdleClassify
    /\ IdleTrain /\ IdleNested /\ InitKFold /\ IdleCli /\ IdleStream /\ IdlePipeline

SpecKFold == KFoldStart /\ [][NextKFold]_vars

CliProgramStart ==
    /\ IdleAssess /\ IdleVeto /\ IdleWdLink /\ IdlePad /\ IdleClassify
    /\ IdleTrain /\ IdleNested /\ IdleKFold /\ InitCli /\ IdleStream /\ IdlePipeline

SpecCli == CliProgramStart /\ [][NextCli]_vars

StreamStart ==
    /\ IdleAssess /\ IdleVeto /\ IdleWdLink /\ IdlePad /\ IdleClassify
    /\ IdleTrain /\ IdleNested /\ IdleKFold /\ IdleCli /\ InitStream /\ IdlePipeline

SpecStream == StreamStart /\ [][NextStream]_vars

PipelineStart ==
    /\ IdleAssess /\ IdleVeto /\ IdleWdLink /\ IdlePad /\ IdleClassify
    /\ IdleTrain /\ IdleNested /\ IdleKFold /\ IdleCli /\ IdleStream /\ InitPipeline

SpecPipeline == PipelineStart /\ [][NextPipeline]_vars

\* The run is one thread of control: as long as a command that is invoked
\* ends, the run takes its next step.
SpecPipelineLive == SpecPipeline /\ WF_vars(NextPipeline)

----------------------------------------------------------------------------
(***************************************************************************)
(* Claims about _assess                                                    *)
(***************************************************************************)

\* The identifier statements (QID, target id) of the source.
Statements ==
    {<<q, t>> \in ToSet(AssessQIDs) \X AssessTIDs : t \in source[q].identifiers}

\* sourceLinks(QID): the links of a QID, none when the key is missing.
SourceLinksOf(q) == IF source[q].has_links THEN source[q].links ELSE {}

\* targetLinks(target id): the links of a target id, none when it is unknown.
TargetLinksOf(t) == IF target[t].known THEN ToSet(target[t].links) ELSE {}

\* C1 as stated: when _assess returns, every statement whose QID has a link
\* and shares no link with its target id is in to_deprecate, also when the
\* target id is unknown or has no links.
C1_DeprecatedWheneverNothingShared ==
    a_pc = "returned" =>
        \A st \in Statements :
            (SourceLinksOf(st[1]) # {}
                /\ SourceLinksOf(st[1]) \cap TargetLinksOf(st[2]) = {})
            => st[1] \in to_deprecate[st[2]]

\* C1 as amended: the same, for the target ids that are known on the target
\* side and have at least one link; a statement whose target id is unknown
\* or has no links is skipped and never deprecated.
C1_DeprecatedWhenTargetHasLinks ==
    a_pc = "returned" =>
        \A st \in Statements :
            /\ (SourceLinksOf(st[1]) # {}
                    /\ TargetLinksOf(st[2]) # {}
                    /\ SourceLinksOf(st[1]) \cap TargetLinksOf(st[2]) = {})
               => st[1] \in to_deprecate[st[2]]
            /\ TargetLinksOf(st[2]) = {} => st[1] \notin to_deprecate[st[2]]

C1_Witness ==
    /\ a_pc = "returned"
    /\ "T1" \in source["Q1"].identifiers
    /\ source["Q1"].links = {"a"}
    /\ target["T1"].links = <<"b">>
    /\ "Q1" \in to_deprecate["T1"]
    /\ "T2" \in source["Q2"].identifiers
    /\ source["Q2"].links = {"a"}
    /\ ~target["T2"].known
    /\ "Q2" \notin to_deprecate["T2"]

\* C2: when _assess returns, for every assessed statement every link of the
\* target id that the QID does not have is in to_add[QID], deprecated or not;
\* with the two examples of the specification.
C2_ExtraLinksAdded ==
    a_pc = "returned" =>
        /\ \A st \in Statements :
              (SourceLinksOf(st[1]) # {} /\ TargetLinksOf(st[2]) # {})
              => (TargetLinksOf(st[2]) \ SourceLinksOf(st[1])) \subseteq to_add[st[1]]
        /\ (/\ <<"Q1", "T1">> \in Statements
            /\ SourceLinksOf("Q1") = {"a", "b"}
            /\ TargetLinksOf("T1") = {"b", "c"})
           => ("Q1" \notin to_deprecate["T1"] /\ "c" \in to_add["Q1"])
        /\ (/\ <<"Q2", "T2">> \in Statements
            /\ SourceLinksOf("Q2") = {"a"}
            /\ TargetLinksOf("T2") = {"c"})
           => ("Q2" \in to_deprecate["T2"] /\ "c" \in to_add["Q2"])

C2_Witness ==
    /\ a_pc = "returned"
    /\ source["Q1"].identifiers = {"T1"}
    /\ SourceLinksOf("Q1") = {"a", "b"}
    /\ TargetLinksOf("T1") = {"b", "c"}
    /\ to_add["Q1"] = {"c"}
    /\ "Q1" \notin to_deprecate["T1"]
    /\ source["Q2"].identifiers = {"T2"}
    /\ SourceLinksOf("Q2") = {"a"}
    /\ TargetLinksOf("T2") = {"c"}
    /\ to_add["Q2"] = {"c"}
    /\ to_deprecate["T2"] = {"Q2"}

\* C3: a QID without known links is skipped: when _assess returns it is in no
\* to_deprecate entry and its to_add entry is empty, and the QIDs after it
\* have been assessed all the same (the loop ran to its end, and their
\* deprecations and additions are there).
C3_QidWithoutLinksSkipped ==
    /\ a_pc = "returned" =>
        /\ a_next = Len(AssessQIDs) + 1
        /\ \A q \in ToSet(AssessQIDs) :
              SourceLinksOf(q) = {} =>
                  /\ to_add[q] = {}
                  /\ \A t \in AssessTIDs : q \notin to_deprecate[t]
        /\ \A st \in Statements :
              (SourceLinksOf(st[1]) # {} /\ TargetLinksOf(st[2]) # {})
              => /\ (TargetLinksOf(st[2]) \ SourceLinksOf(st[1])) \subseteq to_add[st[1]]
                 /\ SourceLinksOf(st[1]) \cap TargetLinksOf(st[2]) = {}
                        => st[1] \in to_deprecate[st[2]]
    \* the loop is never stuck on a QID: skipping or assessing is possible
    /\ (a_pc = "loop" /\ a_next <= Len(AssessQIDs)) =>
            (ENABLED AssessSkipQid \/ ENABLED AssessQid)

C3_Witness ==
    /\ a_pc = "returned"
    /\ ~source["Q1"].has_links
    /\ "T1" \in source["Q1"].identifiers
    /\ TargetLinksOf("T1") = {"c"}
    /\ to_add["Q1"] = {}
    /\ "Q1" \notin to_deprecate["T1"]
    /\ source["Q2"].identifiers = {"T1"}
    /\ SourceLinksOf("Q2") = {"a"}
    /\ to_add["Q2"] = {"c"}
    /\ to_deprecate["T1"] = {"Q2"}

----------------------------------------------------------------------------
(***************************************************************************)
(* Claims about _post_classification_blocking                              *)
(***************************************************************************)

\* The values of a record for the configured fields: those of every field
\* whose column is there and whose cell is not missing, in one set.
PooledValues(frame, fields) ==
    UNION {IF c \in frame.cols /\ ~frame.rows[1].cells[c].nan
           THEN ToSet(frame.rows[1].cells[c].list)
           ELSE {} : c \in ToSet(fields)}

\* C4: without an override field the predictions come back unchanged; with
\* override fields a pair whose source and target values share nothing gets
\* exactly 0.0 whatever its raw score, and a pair that shares a value keeps
\* its raw score.
C4_VetoIffDisjoint ==
    v_pc = "returned" =>
        /\ ~v_result.raised
        /\ Len(v_result.series) = Len(v_predictions)
        /\ v_result.series[1].idx = v_predictions[1].idx
        /\ v_fields = <<>> => v_result.series = v_predictions
        /\ v_fields # <<>> =>
              IF PooledValues(v_wikidata, v_fields)
                    \cap PooledValues(v_target, v_fields) = {}
              THEN v_result.series[1].score = ZERO
              ELSE v_result.series[1].score = v_predictions[1].score

C4_Witness ==
    /\ v_pc = "returned"
    /\ v_fields = <<NAME>>
    /\ v_predictions[1].score = ONE
    /\ v_wikidata.rows[1].cells[NAME] = ListCell(<<<<"x">>>>)
    /\ v_target.rows[1].cells[NAME] = ListCell(<<<<"y">>>>)
    /\ NAME \in v_wikidata.cols /\ NAME \in v_target.cols
    /\ v_result.series[1].score = ZERO

----------------------------------------------------------------------------
(***************************************************************************)
(* Claims about _one_when_wikidata_link_correct                            *)
(***************************************************************************)

\* The URLs of the target record of the call.
UrlsOfTarget == w_target.rows[1].cells[URL].list

\* u contains 'wikidata' and ends in Q<digits>: u is some prefix, then the
\* identifier q, a Q and at least one digit.
EncodesQid(u, q) ==
    /\ \E i \in 1..Len(u) : u[i] = "wikidata"
    /\ Len(q) >= 2 /\ Len(q) <= Len(u)
    /\ q[1] = "Q"
    /\ \A j \in 2..Len(q) : q[j] \in Digits
    /\ SubSeq(u, Len(u) - Len(q) + 1, Len(u)) = q

\* The identifiers that the URLs of the target record encode.
EncodedQids ==
    {q \in {<<"Q">> \o d : d \in UNION {[1..k -> Digits] : k \in 1..MaxUrlLen}} :
        \E i \in 1..Len(UrlsOfTarget) : EncodesQid(UrlsOfTarget[i], q)}

----------------------------------------------------------------------------
(***************************************************************************)
(* Claims about _add_missing_feature_columns                               *)
(***************************************************************************)

\* C8: when the matrix has more columns than the model expects, width
\* reconciliation ends with an error (and so nothing is predicted from that
\* matrix).
C8_WiderMatrixRaises ==
    (/\ p_pc = "returned"
     /\ p_classifier.kind \in SupportedKinds
     /\ Width(p_before) > p_classifier.expected)
    => p_raised # "none"

\* C9: a classifier of no supported kind ends the call with a ValueError,
\* the feature matrix unchanged.
C9_UnsupportedKindValueError ==
    (p_pc = "returned" /\ p_classifier.kind \notin SupportedKinds)
    => (p_raised = "ValueError" /\ p_fv = p_before)

\* C7: a matrix of w columns and a model that expects e >= w columns: after
\* the call the matrix has e columns, the first w as they were, every added
\* column the missing-value sentinel in every row; nothing changes when
\* e = w.  Stated of the calls that execute makes.
C7_PaddedToExpectedWidth ==
    (/\ Width(c_padded.before) > 0
     /\ c_classifier.expected >= Width(c_padded.before))
    => LET before == c_padded.before
           after  == c_padded.after
           w      == Width(c_padded.before)
           e      == c_classifier.expected
       IN  /\ Width(after) = e
           /\ SubSeq(after.cols, 1, w) = before.cols
           /\ Len(after.rows) = Len(before.rows)
           /\ \A r \in 1..Len(before.rows) :
                 /\ after.rows[r].idx = before.rows[r].idx
                 /\ SubSeq(after.rows[r].vals, 1, w) = before.rows[r].vals
                 /\ \A k \in w + 1..e :
                       after.rows[r].vals[k] = FEATURE_MISSING_VALUE
           /\ e = w => after = before

----------------------------------------------------------------------------
(***************************************************************************)
(* Claims about execute                                                    *)
(***************************************************************************)

\* The batch that was emitted last, and the corrected predictions it was
\* taken from.
LastBatch == c_emitted[Len(c_emitted)]

ConfidentPairs ==
    {c_corrected[k].idx :
        k \in {j \in 1..Len(c_corrected) :
                  c_corrected[j].score >= CONFIDENCE_THRESHOLD}}

\* C6: a batch holds the pairs whose corrected score is at least the
\* threshold, all of them and each once: two pairs of the same score are
\* both in it.
C6_BatchIsConfidentPairs ==
    Len(c_emitted) > 0 =>
        /\ {LastBatch[k].idx : k \in 1..Len(LastBatch)} = ConfidentPairs
        /\ \A j, k \in 1..Len(LastBatch) :
              LastBatch[j].idx = LastBatch[k].idx => j = k

Emitted(batches) ==
    UNION {{batches[b][k] : k \in 1..Len(batches[b])} : b \in 1..Len(batches)}

\* The run reads the cache that the run before it wrote, with the model and
\* the override fields of that run.
CacheHitAfterMiss ==
    /\ c_path = "cache"
    /\ c_previous.path = "rebuild"
    /\ c_previous.pc = "done"
    /\ c_previous.classifier = c_classifier
    /\ c_previous.fields = c_fields

\* C11: a run from the cache emits the (pair, score) predictions that the
\* run that wrote the cache emitted over its chunks, for the same model,
\* threshold and override fields.
C11_CacheHitEmitsWhatMissEmitted ==
    (CacheHitAfterMiss /\ c_pc \in {"done", "failed"}) =>
        /\ c_pc = "done"
        /\ Emitted(c_emitted) = Emitted(c_previous.emitted)

\* The loop body of execute on the whole dataset as its one chunk.
Unchunked ==
    LET samples == Samples(WdFrame(WdOrder))
    IN  Classify(c_classifier,
                 add_missing_feature_columns(c_classifier,
                                             ExtractFeatures(samples)).fv,
                 WdFrame(WdOrder), TargetChunk(samples), c_fields)

\* C12: the batches that a run emits over its chunks hold, together, the
\* predictions of the one batch that the same input gives as one chunk.
C12_ChunkedEmitsWhatUnchunkedEmits ==
    (c_path = "rebuild" /\ c_pc \in {"dump_wd", "dump_target", "done"}) =>
        /\ Unchunked.raised = "none"
        /\ Emitted(c_emitted) =
              Emitted(<<Batch(Unchunked.series, CONFIDENCE_THRESHOLD)>>)

\* The matrices of chunks 1..n as feature extraction gives them, one after
\* the other.
RECURSIVE ExtractedUpTo(_)
ExtractedUpTo(n) ==
    IF n = 1 THEN ExtractFeatures(Samples(WdChunk(1)))
    ELSE ConcatMatrices(ExtractedUpTo(n - 1), ExtractFeatures(Samples(WdChunk(n))))

\* C13: the feature matrix that is persisted is the per-chunk matrices as
\* extracted, one after the other: the padding of a chunk's matrix for the
\* classifier, the first chunk's or a later one's, adds no column and no
\* value to it.
C13_PersistedMatrixIsUnpadded ==
    cache_fv.exists => cache_fv.data = ExtractedUpTo(NumChunks)

----------------------------------------------------------------------------
(***************************************************************************)
(* Claims about train.execute                                              *)
(***************************************************************************)

\* The pairs of the rows of the matrix that _train is given.
TrainedPairs ==
    {t_trained.feature_vectors[k].idx : k \in 1..Len(t_trained.feature_vectors)}

\* C14: every chunk of the Wikidata generator, the first and the later
\* ones, is compared against the target chunks, and its samples are in the
\* matrix that _train is given.
C14_EveryWdChunkContributes ==
    t_pc = "returned" =>
        \A i \in 1..NumWdChunks :
            /\ \E j \in 1..NumTargetChunks : <<i, j>> \in t_compared
            /\ full_text_query_block(TrainWdChunk(i)) \subseteq TrainedPairs

\* C15: no pair is in two rows of the matrix that _train is given.
C15_TrainedPairsOnce ==
    t_pc = "returned" =>
        \A m, n \in 1..Len(t_trained.feature_vectors) :
            t_trained.feature_vectors[m].idx = t_trained.feature_vectors[n].idx
                => m = n

\* C16: the positive index that _train is given is the union, over the
\* rounds of the loop body, of the true pairs of the round that are in its
\* full sample set; a true pair that is not there is left out and the run
\* goes on; what one round found no later round takes away.
C16_PositivesAreUnionOverRounds ==
    /\ t_pc # "failed"
    /\ t_pc = "returned" =>
          t_trained.positives.data =
              UNION {full_text_query_block(TrainWdChunk(r[1]))
                         \cap train_test_block(TrainWdChunk(r[1]),
                                               TrainTargetChunk(r[2])) :
                     r \in t_compared}

----------------------------------------------------------------------------
(***************************************************************************)
(* Claims about the nested evaluation                                      *)
(***************************************************************************)

\* C17: for a single-layer or a multi-layer perceptron the nested search
\* ends with NotImplementedError, and it does so before the dataset is
\* built, before a model is initialized and before any fold.
C17_NestedSearchRefusesPerceptrons ==
    (/\ n_classifier \in {SINGLE_LAYER_PERCEPTRON, MULTI_LAYER_PERCEPTRON}
     /\ n_pc \notin {"off", "call"})
    => /\ n_pc = "failed"
       /\ n_raised = "NotImplementedError"
       /\ ~n_built
       /\ ~n_initialized
       /\ n_fold = 0
       /\ n_fits = <<>>

C17_Witness ==
    /\ n_classifier = SINGLE_LAYER_PERCEPTRON
    /\ n_pc = "failed"
    /\ n_raised = "NotImplementedError"
    /\ ~n_built

\* C18: the dumped result of a nested evaluation of k outer folds has k
\* train scores, k test scores and k paths of best models; the i-th of
\* each is that of the i-th outer fold, and the best model of fold i is
\* what was persisted at the i-th path.
C18_NestedResultPerFold ==
    n_pc = "dumped" =>
        /\ n_dumped.written
        /\ Len(n_fits) = n_k
        /\ Len(n_dumped.result.train) = n_k
        /\ Len(n_dumped.result.test) = n_k
        /\ Len(n_dumped.result.best_models) = n_k
        /\ \A i \in 1..n_k :
              /\ n_dumped.result.train[i] = n_fits[i].train
              /\ n_dumped.result.test[i] = n_fits[i].test
              /\ n_dumped.result.best_models[i] \in BestModelPaths
              /\ n_disk[n_dumped.result.best_models[i]] = n_fits[i].model

C18_Witness ==
    /\ n_pc = "dumped"
    /\ n_k = 3
    /\ n_dumped.result.train = <<0, 1, 0>>
    /\ n_dumped.result.test = <<1, 1, 0>>
    /\ n_disk[n_dumped.result.best_models[2]] = [fit |-> 2]

----------------------------------------------------------------------------
(***************************************************************************)
(* Claims about average_k_fold                                             *)
(***************************************************************************)

\* C19: over k folds, every fold fits a classifier instance of its own;
\* there are k precisions, k recalls and k F-scores, the i-th those of the
\* i-th fold; the predictions returned are the pairs that some fold
\* predicted.
C19_AverageKFoldAccumulates ==
    f_pc = "returned" =>
        /\ Len(f_models) = f_k
        /\ \A i, j \in 1..f_k :
              f_models[i].instance = f_models[j].instance => i = j
        /\ \A i \in 1..f_k : f_models[i].fit_on = DatasetIndex \ f_split[i]
        /\ Len(f_precisions) = f_k
        /\ Len(f_recalls) = f_k
        /\ Len(f_fscores) = f_k
        /\ \A i \in 1..f_k :
              /\ f_precisions[i] = Precision(f_positive \cap f_split[i], f_preds[i])
              /\ f_recalls[i] = Recall(f_positive \cap f_split[i], f_preds[i])
              /\ f_fscores[i] = FScore(f_positive \cap f_split[i], f_preds[i])
        /\ f_returned.predictions.set
        /\ f_returned.predictions.data = UNION {f_preds[i] : i \in 1..f_k}

C19_Witness ==
    /\ f_pc = "returned"
    /\ f_k = 3
    /\ f_preds[1] # {}
    /\ f_preds[2] # {}
    /\ f_preds[3] = {}
    /\ f_returned.predictions.data = f_preds[1] \cup f_preds[2]
    /\ f_precisions[1] # f_precisions[2]

----------------------------------------------------------------------------
(***************************************************************************)
(* Claims about classify.cli                                               *)
(***************************************************************************)

----------------------------------------------------------------------------
(***************************************************************************)
(* Claims about cli driving execute                                        *)
(***************************************************************************)

\* The events of kind ev in the log of the run, in their order.
EventsOf(ev) ==
    LET IsOfKind(e) == e.ev = ev
    IN  SelectSeq(s_log, IsOfKind)

\* C21: in a run that rebuilds the dataset the chunks are blocked in the
\* order 1, 2, 3, ..., and when the blocking of chunk i+1 starts the batch
\* of chunk i has been emitted, then uploaded when upload is on, then
\* appended to the results file.
C21_ChunksOneAfterAnother ==
    s_path = "rebuild" =>
        /\ \A k \in 1..Len(EventsOf("block")) : EventsOf("block")[k].i = k
        /\ \A p \in 1..Len(s_log) :
              (s_log[p].ev = "block" /\ s_log[p].i > 1) =>
                 \E a, c \in 1..p - 1 :
                    /\ a < c
                    /\ s_log[a] = Event("emit", s_log[p].i - 1)
                    /\ s_log[c] = Event("append", s_log[p].i - 1)
                    /\ s_upload =>
                          \E b \in a + 1..c - 1 :
                             s_log[b] = Event("upload", s_log[p].i - 1)
                    /\ \E r \in 1..Len(s_results) : s_results[r] = s_log[p].i - 1

C21_Witness ==
    /\ s_path = "rebuild"
    /\ s_upload
    /\ \E p \in 1..Len(s_log) : s_log[p] = Event("block", 3)
    /\ s_results = <<1, 2>>

\* The rows of a sequence of batches, batch after batch.
RECURSIVE RowsOf(_)
RowsOf(batches) ==
    IF batches = <<>> THEN <<>>
    ELSE RowsOf(SubSeq(batches, 1, Len(batches) - 1)) \o batches[Len(batches)]

\* C22: when the command has completed, the rows of the results file are
\* the rows of the batches that execute yielded in this run, batch after
\* batch, whatever file was at the path before; no row of that file is left.
C22_ResultsAreThisRunsBatches ==
    cli_pc = "done" =>
        /\ cli_results.exists
        /\ cli_results.rows = RowsOf(cli_batches)
        /\ \A k \in 1..Len(cli_results.rows) : cli_results.rows[k] # OldRow

C22_Witness ==
    /\ cli_pc = "done"
    /\ cli_old = [exists |-> TRUE, rows |-> <<OldRow>>]
    /\ Len(cli_batches) = 2
    /\ Len(cli_batches[1]) > 0 /\ Len(cli_batches[2]) > 0
    /\ cli_batches[1] # cli_batches[2]
    /\ cli_results.rows = cli_batches[1] \o cli_batches[2]

\* C23: with upload on, what is handed to the uploader for a batch is one
\* link for every pair of the batch.
C23_EveryPairUploaded ==
    cli_upload =>
        \A k \in 1..Len(cli_uploaded) : cli_uploaded[k] = ToSet(cli_batches[k])

----------------------------------------------------------------------------
(***************************************************************************)
(* Claims about the order of the two corrections in execute                *)
(***************************************************************************)

\* The veto zeroes the pair: override fields are configured and the names
\* of the two records differ.
VetoZeroes(pair) ==
    c_fields # <<>> /\ WdNames[pair[1]] # c_target_db[pair[2]].name

\* The target record of the pair has a URL of Wikidata.
HasWikidataUrl(pair) ==
    c_url_column /\ c_target_db[pair[2]].url = <<WikidataUrlOfQ4>>

\* C24: in the corrected predictions of a chunk, a pair whose target record
\* has a Wikidata URL scores 1.0 when the URL encodes its QID and 0
\* otherwise, whatever the veto did; any other pair, and every pair when the
\* target records have no URL column, scores what the veto left: 0.0 when
\* it vetoed and the raw score when it did not.
C24_OverrideAfterVeto ==
    \A k \in 1..Len(c_corrected) :
        LET pair == c_corrected[k].idx
        IN  c_corrected[k].score =
                IF HasWikidataUrl(pair)
                THEN IF pair[1] = Q4 THEN ONE ELSE ZERO
                ELSE IF VetoZeroes(pair) THEN ZERO
                ELSE c_evidence[pair]

C24_Witness ==
    /\ c_fields = <<NAME>>
    /\ c_url_column
    /\ c_target_db["T1"] = [name |-> NameB, url |-> <<WikidataUrlOfQ4>>]
    /\ c_evidence[<<Q44, "T1">>] = 3
    /\ VetoZeroes(<<Q4, "T1">>) /\ ~VetoZeroes(<<Q44, "T1">>)
    /\ \E j, k \in 1..Len(c_corrected) :
          /\ c_corrected[j] = [idx |-> <<Q4, "T1">>, score |-> ONE]
          /\ c_corrected[k] = [idx |-> <<Q44, "T1">>, score |-> ZERO]

----------------------------------------------------------------------------
(***************************************************************************)
(* Claims about the URL that _one_when_wikidata_link_correct decides on    *)
(***************************************************************************)

\* The identifiers a URL of the model can end in.
QidsOfUrls ==
    {<<"Q">> \o d : d \in UNION {[1..k -> Digits] : k \in 1..MaxUrlLen}}

\* u contains 'wikidata' and ends in Q<digits>.
IsWikidataLink(u) == \E q \in QidsOfUrls : EncodesQid(u, q)

\* C25: the result is decided by the first URL of the list that contains
\* 'wikidata' and ends in Q<digits>: 1.0 when that URL encodes the QID of
\* the pair and 0 when it does not, whatever the URLs after it are and
\* whatever empty or other URLs come before it.
C25_FirstMatchingUrlDecides ==
    w_pc = "returned" =>
        \A i \in 1..Len(UrlsOfTarget) :
            (/\ IsWikidataLink(UrlsOfTarget[i])
             /\ \A j \in 1..i - 1 : ~IsWikidataLink(UrlsOfTarget[j])) =>
                /\ ~w_result.raised
                /\ w_result.score =
                      IF EncodesQid(UrlsOfTarget[i], w_prediction.idx[1])
                      THEN ONE ELSE ZERO

\* The first URL encodes another QID, the second the QID of the pair.
C25_Witness ==
    /\ w_pc = "returned"
    /\ UrlsOfTarget = << <<"wikidata", "Q", "4", "4">>, <<"wikidata", "Q", "4">> >>
    /\ w_prediction.idx[1] = <<"Q", "4">>
    /\ w_prediction.score = ONE
    /\ w_result.score = ZERO

----------------------------------------------------------------------------
(***************************************************************************)
(* Claims about fields that are absent in _zero_when_not_exact_match       *)
(***************************************************************************)

\* The record of the frame has a value for the field: the column is there
\* and the cell is not missing.
Present(frame, field) ==
    field \in frame.cols /\ ~frame.rows[1].cells[field].nan

\* The record has no value at all for the configured fields.
NoValueAtAll(frame) ==
    \A field \in ToSet(v_fields) :
        Present(frame, field) => frame.rows[1].cells[field].list = <<>>

\* Some value of a configured field of the source is a value of a
\* configured field of the target, the same field or another.
SharedThroughSomeField ==
    \E c, d \in ToSet(v_fields) :
        /\ Present(v_wikidata, c) /\ Present(v_target, d)
        /\ \E i \in 1..Len(v_wikidata.rows[1].cells[c].list),
              j \in 1..Len(v_target.rows[1].cells[d].list) :
              v_wikidata.rows[1].cells[c].list[i] = v_target.rows[1].cells[d].list[j]

\* C26: with override fields, a field that is absent on a side adds nothing
\* and does not make the call fail; the pair keeps its raw score exactly
\* when a value of some configured field of the source is a value of some
\* configured field of the target, and is 0.0 otherwise; so a pair with no
\* value at all on one side is 0.0.
C26_AbsentFieldsAndPooling ==
    (v_pc = "returned" /\ v_fields # <<>>) =>
        /\ ~v_result.raised
        /\ v_result.series[1].score =
              IF SharedThroughSomeField THEN v_predictions[1].score ELSE ZERO
        /\ (NoValueAtAll(v_wikidata) \/ NoValueAtAll(v_target)) =>
              v_result.series[1].score = ZERO

\* The source has only a name, the target only a URL, and they are the same
\* string: the pools meet and the raw score stays.
C26_Witness ==
    /\ v_pc = "returned"
    /\ v_fields = <<NAME, URL>>
    /\ v_predictions[1].score = ONE
    /\ v_wikidata.cols = {NAME}
    /\ v_wikidata.rows[1].cells[NAME] = ListCell(<<<<"x">>>>)
    /\ v_target.cols = {NAME, URL}
    /\ v_target.rows[1].cells[NAME] = NanCell
    /\ v_target.rows[1].cells[URL] = ListCell(<<<<"x">>>>)
    /\ v_result.series[1].score = ONE

----------------------------------------------------------------------------
(***************************************************************************)
(* Claims about the soundness of _assess                                   *)
(***************************************************************************)

\* Every QID that is to be deprecated for a target id has that target id
\* among its identifiers, has links, as the target id has, and shares none.
DeprecationsAreSound ==
    \A t \in AssessTIDs :
        \A q \in to_deprecate[t] :
            /\ t \in source[q].identifiers
            /\ source[q].has_links /\ source[q].links # {}
            /\ target[t].known /\ target[t].links # <<>>
            /\ \A i \in 1..Len(target[t].links) :
                  target[t].links[i] \notin source[q].links

\* Every link that is to be added to a QID is a link of one of its target
\* ids and not a link the QID has.
AdditionsAreSound ==
    \A q \in ToSet(AssessQIDs) :
        \A l \in to_add[q] :
            /\ l \notin source[q].links
            /\ \E t \in source[q].identifiers :
                  /\ target[t].known
                  /\ \E i \in 1..Len(target[t].links) : target[t].links[i] = l

\* C27: at every point of _assess what is in to_deprecate and in to_add is
\* sound with respect to the two collections, and no step changes the
\* source or the target collection.
C27_AssessIsSound ==
    /\ [](DeprecationsAreSound /\ AdditionsAreSound)
    /\ [][source' = source /\ target' = target]_vars

C27_Witness ==
    /\ a_pc = "returned"
    /\ to_deprecate["T1"] = {"Q1"}
    /\ to_add["Q1"] = {"b", "c"}
    /\ to_add["Q2"] = {"c"}
    /\ to_deprecate["T2"] = {}
    /\ source["Q1"].links = {"a"}
    /\ source["Q2"].links = {"b"}

----------------------------------------------------------------------------
(***************************************************************************)
(* Claims about when the cache is written                                  *)
(***************************************************************************)

\* The run ended before the batch of the last chunk was handled: a chunk
\* failed in execute, or the upload or the write of cli failed.
StoppedEarly(raised) == raised \in {"chunk", "upload", "write"}

\* C28: in a run that rebuilds the dataset, a cache artifact is written only
\* when the batch of the last chunk has been emitted and appended to the
\* results file (and uploaded before, when upload is on); a run that a
\* failing chunk or a failing upload or write ends leaves the cache as it
\* found it, and the run after it rebuilds the dataset again.
C28_CacheWrittenAfterLastBatch ==
    /\ s_path = "rebuild" =>
          /\ \A p \in 1..Len(s_log) :
                s_log[p].ev \in CacheFiles =>
                   /\ s_chunks > 0
                   /\ \E a, c \in 1..p - 1 :
                         /\ a < c
                         /\ s_log[a] = Event("emit", s_chunks)
                         /\ s_log[c] = Event("append", s_chunks)
                         /\ s_upload =>
                               \E b \in a + 1..c - 1 :
                                  s_log[b] = Event("upload", s_chunks)
          /\ s_cache # s_cache_start =>
                \E p \in 1..Len(s_log) : s_log[p].ev \in CacheFiles
          /\ (s_pc = "failed" /\ StoppedEarly(s_raised)) =>
                s_cache = s_cache_start /\ ~UseCache(s_cache)
    /\ (s_before.path = "rebuild" /\ StoppedEarly(s_before.raised)
          /\ s_path # "none") =>
          s_path = "rebuild"

\* The first run was ended by a failing write and the second one, with
\* upload on, went through all three chunks and wrote the cache.
C28_Witness ==
    /\ s_before = [path |-> "rebuild", raised |-> "write", pc |-> "failed"]
    /\ s_path = "rebuild"
    /\ s_upload
    /\ s_chunks = 3
    /\ s_pc = "done"
    /\ s_cache_start = {}
    /\ s_cache = CacheFiles

----------------------------------------------------------------------------
(***************************************************************************)
(* Claims about the pipeline                                               *)
(***************************************************************************)

ValidatorCommands == {"dead_ids_cli", "links_cli", "bio_cli"}

\* The arguments of a validator command for one entity type.
ArgsFor(entity_type) ==
    <<PipelineTarget, entity_type>>
        \o (IF pl_upload THEN <<"--upload">> ELSE <<>>)

\* C29: for a target whose entity types are all proper ones, every
\* invocation of a validator command has the target, one entity type of the
\* target and the upload flag when it is on as its arguments, and nothing
\* else.
C29_ArgsOfOneEntityType ==
    (\A e \in ToSet(pl_entities) : e # "") =>
        \A k \in 1..Len(pl_calls) :
            pl_calls[k].command \in ValidatorCommands =>
                \E e \in ToSet(pl_entities) : pl_calls[k].args = ArgsFor(e)

\* The entity types the linker runs for: the ones that are not falsy.
LinkerEntities ==
    LET IsType(e) == e # ""
    IN  SelectSeq(pl_entities, IsType)

\* The steps of a run in which no command raises anything but SystemExit:
\* [command, entity type], the entity type "" for the importer.
RECURSIVE StepsOf(_, _)
StepsOf(commands, entities) ==
    IF entities = <<>> THEN <<>>
    ELSE [k \in 1..Len(commands) |->
             [command |-> commands[k], entity |-> entities[1]]]
         \o StepsOf(commands, SubSeq(entities, 2, Len(entities)))

Plan ==
    (IF pl_importer THEN StepsOf(<<"import_cli", "validate_links">>, <<"">>)
     ELSE <<>>)
    \o (IF pl_linker
        THEN StepsOf(<<"evaluate.cli", "train.cli", "classify.cli">>, LinkerEntities)
        ELSE <<>>)
    \o (IF pl_validator
        THEN StepsOf(<<"dead_ids_cli", "links_cli", "bio_cli">>, pl_entities)
        ELSE <<>>)

\* The steps taken so far; the entity type of a step is the one its loop is
\* at.
StepsTaken ==
    [k \in 1..Len(pl_calls) |->
        [command |-> pl_calls[k].command,
         entity  |-> IF pl_calls[k].command \in {"import_cli", "validate_links"}
                     THEN ""
                     ELSE IF pl_calls[k].command \in ValidatorCommands
                     THEN pl_calls[k].args[2]
                     ELSE pl_calls[k].args[3]]]

\* C30: the steps are taken in the order importer, linker, validator, the
\* linker with evaluate, train, classify for one entity type after the
\* other; the run fails when, and only when, the last command raised
\* something other than SystemExit, and no step follows; otherwise the run
\* goes on, and comes to its end with all the steps of the enabled stages
\* taken.
C30_StagesInOrder ==
    /\ [](/\ Len(StepsTaken) <= Len(Plan)
          /\ StepsTaken = SubSeq(Plan, 1, Len(StepsTaken))
          /\ pl_pc = "failed" <=> pl_outcome = "Exception"
          /\ pl_pc = "done" => StepsTaken = Plan)
    /\ [][pl_pc = "failed" => pl_calls' = pl_calls]_vars
    /\ <>(pl_pc \in {"done", "failed"})

C30_Witness ==
    /\ pl_pc = "done"
    /\ pl_importer /\ pl_linker /\ pl_validator
    /\ pl_entities = <<"musician", "band">>
    /\ pl_outcome = "SystemExit"
    /\ Len(pl_calls) = 14

====
